---- MODULE Spec2Model ----
(***************************************************************************)
(* Model of the missing-episode finder (src/missing_episode_finder.py)     *)
(* and of the CSFD lookup helpers it uses (src/title_lookup_service.py).   *)
(*                                                                         *)
(* Strings are sequences of one-character strings, so that the regular     *)
(* expressions of the source are modelled by what they match.              *)
(***************************************************************************)
EXTENDS Integers, Sequences, FiniteSets, TLC

VARIABLES
    name,       \* extract_episode_matches: the file name it is applied to
    matches,    \* extract_episode_matches: the list it returned
    exPc,       \* "input" before the call, "done" after it
    tree,       \* the show directory: the (rel_parts, file_name) pairs os.walk yields, in order
    remote,     \* what the remote site knows about the show (episode counts, total seasons)
    report,     \* ShowReport of analyze_show(show, path) (metadata = None), or NoReport
    reportMeta, \* ShowReport of analyze_show(show, path, metadata = candidate), or NoReport
    maxResults, \* CSFDLookup.max_results
    cache,      \* the lru_cache of fetch_csfd_show_detail: (url, result) pairs, oldest first
    lookup,     \* the last call of CSFDLookup.resolve: what it was given, did and returned
    csfdEnabled, \* main: FALSE under --no-csfd (csfd_lookup is None)
    shows,      \* main: shows_to_process, (name, tree) in discovery order
    lookups,    \* main: the call of resolve made for each show so far, in order
    reports,    \* main: the list of ShowReport
    mainPc,     \* main: "idle", "loop", "done" (returned 0), "nothing" (returned 1), "aborted"
    answers,    \* main: what the user did at the CSFD selection of each show so far
    fetchLog,   \* the requests sent by fetch_csfd_results and fetch_csfd_show_detail, in order
    fetchOut,   \* the last call of one of the two: what it was given and what it returned
    parser,     \* a MovieSearchParser: limit, results, _current, _capture_*, _year_target
    fed,        \* the start-tag, end-tag and text events fed to the parser so far
    hintParts,  \* extract_season_hint: the path segments it is applied to, shallowest first
    hintOut,    \* extract_season_hint: what it returned
    hintPc,     \* "input" before the call, "done" after it
    remapPath,  \* remap_path: the path it is applied to
    remapMapping, \* remap_path: the old directory -> new directory mapping
    remapOut,   \* remap_path: the path it returned
    remapPc,    \* "input" before the call, "done" after it
    used,       \* the urls fetch_csfd_show_detail has returned a result for, by last use
    detailParser, \* a CSFDShowDetailParser: its fields
    detailFed,  \* the start-tag, end-tag and text events fed to it so far
    disk,       \* the library on disk: the path each video file has now, in discovery order
    libFiles,   \* process_library_path: its list files
    dir_mapping, \* process_library_path: old directory -> new directory
    libLog,     \* process_library_path: the call of process_media_file of each iteration
    libPc       \* "idle", "loop", "done" (returned 0), "nothing", "aborted" (returned 1)

vars == <<name, matches, exPc, tree, remote, report, reportMeta, maxResults, cache, lookup,
          csfdEnabled, shows, lookups, reports, mainPc, answers, fetchLog, fetchOut, parser, fed,
          hintParts, hintOut, hintPc, remapPath, remapMapping, remapOut, remapPc,
          used, detailParser, detailFed, disk, libFiles, dir_mapping, libLog, libPc>>
extractVars == <<name, matches, exPc>>
analyzeVars == <<tree, remote, report, reportMeta>>
lookupVars == <<maxResults, cache, lookup>>
mainVars == <<csfdEnabled, shows, lookups, reports, mainPc, answers>>
fetchVars == <<fetchLog, fetchOut>>
parserVars == <<parser, fed>>
hintVars == <<hintParts, hintOut, hintPc>>
remapVars == <<remapPath, remapMapping, remapOut, remapPc>>
usedVars == <<used>>
detailVars == <<detailParser, detailFed>>
libVars == <<disk, libFiles, dir_mapping, libLog, libPc>>
helperVars == <<hintVars, remapVars, usedVars, detailVars, libVars>>
restVars == <<mainVars, fetchVars, parserVars, helperVars>>

(***************************************************************************)
(* Bounds of the model.                                                    *)
(***************************************************************************)
MaxNameLen == 6
MaxFiles == 3
MaxHits == 4
MaxResultsBound == 2
MaxShows == 2
MaxFetches == 2
MaxEvents == 6
MaxDepth == 3
MaxKeys == 2
MaxUrls == 130
MaxLibFiles == 3

\* Python's None for an Optional[int]; the regex groups are \d+, never negative.
None == -1

(***************************************************************************)
(* Characters.                                                             *)
(***************************************************************************)
Digits == <<"0", "1", "2", "3", "4", "5", "6", "7", "8", "9">>
UpperCase == <<"A", "B", "C", "D", "E", "F", "G", "H", "I", "J", "K", "L", "M",
               "N", "O", "P", "Q", "R", "S", "T", "U", "V", "W", "X", "Y", "Z">>
LowerCase == <<"a", "b", "c", "d", "e", "f", "g", "h", "i", "j", "k", "l", "m",
               "n", "o", "p", "q", "r", "s", "t", "u", "v", "w", "x", "y", "z">>

\* the accented letters are written by name: "a-acute" is the one character a with acute
AccentedLower == <<"a-acute", "e-acute", "e-caron", "i-acute", "o-acute", "u-acute",
                   "u-ring", "y-acute", "s-caron", "c-caron", "r-caron", "z-caron">>
AccentedUpper == <<"A-acute", "E-acute", "E-caron", "I-acute", "O-acute", "U-acute",
                   "U-ring", "Y-acute", "S-caron", "C-caron", "R-caron", "Z-caron">>
AccentedLetters == {AccentedLower[i] : i \in 1..12} \cup {AccentedUpper[i] : i \in 1..12}

IsDigit(c) == \E i \in 1..10 : Digits[i] = c
DigitVal(c) == (CHOOSE i \in 1..10 : Digits[i] = c) - 1
\* str.lower() of one character; the (?i) flag of the patterns compares this way
Lower(c) == IF \E i \in 1..26 : UpperCase[i] = c
            THEN LowerCase[CHOOSE i \in 1..26 : UpperCase[i] = c]
            ELSE IF \E i \in 1..12 : AccentedUpper[i] = c
            THEN AccentedLower[CHOOSE i \in 1..12 : AccentedUpper[i] = c]
            ELSE c
IsSpace(c) == c = " "
\* the class [ ._-] of EPISODE_PATTERNS[0]
IsSep(c) == c \in {" ", ".", "_", "-"}

RECURSIVE LowerStr(_)
LowerStr(s) == IF s = <<>> THEN <<>> ELSE <<Lower(Head(s))>> \o LowerStr(Tail(s))

\* number of consecutive characters from position p on that satisfy the class, at most max
RECURSIVE DigitRun(_, _, _)
DigitRun(s, p, max) ==
    IF max = 0 \/ p > Len(s) \/ ~IsDigit(s[p]) THEN 0 ELSE 1 + DigitRun(s, p + 1, max - 1)

RECURSIVE SepRun(_, _)
SepRun(s, p) == IF p > Len(s) \/ ~IsSep(s[p]) THEN 0 ELSE 1 + SepRun(s, p + 1)

RECURSIVE SpaceRun(_, _)
SpaceRun(s, p) == IF p > Len(s) \/ ~IsSpace(s[p]) THEN 0 ELSE 1 + SpaceRun(s, p + 1)

\* int() of the n decimal digits of s that start at position p
RECURSIVE ToInt(_, _, _)
ToInt(s, p, n) == IF n = 0 THEN 0 ELSE ToInt(s, p, n - 1) * 10 + DigitVal(s[p + n - 1])

\* s starts, at position p, with the (lower case) word w, compared case-insensitively
StartsWithAt(s, p, w) ==
    /\ p + Len(w) - 1 <= Len(s)
    /\ \A i \in 1..Len(w) : Lower(s[p + i - 1]) = w[i]

(***************************************************************************)
(* EPISODE_PATTERNS and EPISODE_ONLY_PATTERN.  A match attempt at position *)
(* p gives [ok, season, episode, next]: next is the position after the     *)
(* match.  The quantifiers are greedy; the character classes that follow   *)
(* each quantifier are disjoint from it, so backtracking never finds a     *)
(* match the greedy attempt misses.                                        *)
(***************************************************************************)
NoMatch == [ok |-> FALSE, season |-> None, episode |-> 0, next |-> 0]

\* (?i)[Ss](\d{1,2})[ ._-]*[Ee](\d{1,3})
MatchSxxEyy(s, p) ==
    IF p > Len(s) \/ Lower(s[p]) # "s" THEN NoMatch
    ELSE LET d1 == DigitRun(s, p + 1, 2)
             q  == p + 1 + d1 + SepRun(s, p + 1 + d1)
             d2 == DigitRun(s, q + 1, 3)
         IN  IF d1 = 0 \/ q > Len(s) \/ Lower(s[q]) # "e" \/ d2 = 0 THEN NoMatch
             ELSE [ok |-> TRUE, season |-> ToInt(s, p + 1, d1),
                   episode |-> ToInt(s, q + 1, d2), next |-> q + 1 + d2]

\* (?i)(\d{1,2})x(\d{1,3})
MatchNxM(s, p) ==
    LET d1 == DigitRun(s, p, 2)
        q  == p + d1
        d2 == DigitRun(s, q + 1, 3)
    IN  IF d1 = 0 \/ q > Len(s) \/ Lower(s[q]) # "x" \/ d2 = 0 THEN NoMatch
        ELSE [ok |-> TRUE, season |-> ToInt(s, p, d1),
              episode |-> ToInt(s, q + 1, d2), next |-> q + 1 + d2]

\* (?i)[Ee](\d{1,3})
MatchEyy(s, p) ==
    IF p > Len(s) \/ Lower(s[p]) # "e" THEN NoMatch
    ELSE LET d2 == DigitRun(s, p + 1, 3)
         IN  IF d2 = 0 THEN NoMatch
             ELSE [ok |-> TRUE, season |-> None,
                   episode |-> ToInt(s, p + 1, d2), next |-> p + 1 + d2]

MatchAt(kind, s, p) ==
    CASE kind = "SxxEyy" -> MatchSxxEyy(s, p)
      [] kind = "NxM"    -> MatchNxM(s, p)
      [] kind = "Eyy"    -> MatchEyy(s, p)

\* pattern.findall(name): the non-overlapping matches, scanning left to right
RECURSIVE FindAll(_, _, _)
FindAll(kind, s, p) ==
    IF p > Len(s) THEN <<>>
    ELSE LET m == MatchAt(kind, s, p)
         IN  IF m.ok THEN <<(<<m.season, m.episode>>)>> \o FindAll(kind, s, m.next)
             ELSE FindAll(kind, s, p + 1)

\* a bug the claims must exclude: the second pattern is tried only when the first found nothing
extract_episode_matches_priority(nm) ==
    IF FindAll("SxxEyy", nm, 1) # <<>> THEN FindAll("SxxEyy", nm, 1)
    ELSE IF FindAll("NxM", nm, 1) # <<>> THEN FindAll("NxM", nm, 1)
    ELSE FindAll("Eyy", nm, 1)

extract_episode_matches(nm) ==
    LET found == FindAll("SxxEyy", nm, 1) \o FindAll("NxM", nm, 1)
    IN  IF found = <<>> THEN FindAll("Eyy", nm, 1) ELSE found

(***************************************************************************)
(* extract_season_hint.                                                    *)
(***************************************************************************)
\* str.strip()
RECURSIVE LStrip(_)
LStrip(s) == IF s # <<>> /\ IsSpace(Head(s)) THEN LStrip(Tail(s)) ELSE s
RECURSIVE RStrip(_)
RStrip(s) == IF s # <<>> /\ IsSpace(s[Len(s)]) THEN RStrip(SubSeq(s, 1, Len(s) - 1)) ELSE s
Strip(s) == RStrip(LStrip(s))

\* SPECIALS_PATTERN.fullmatch: (?i)specials
SPECIALS_PATTERN_fullmatch(s) == LowerStr(s) = <<"s", "p", "e", "c", "i", "a", "l", "s">>

\* the alternatives of SEASON_HINT_PATTERN, in the order the pattern tries them
SeasonWords == << <<"s", "e", "a", "s", "o", "n">>,
                  <<"s", "e", "r", "i", "e", "s">>,
                  <<"s">> >>

\* one alternative of (?i)(?:season|series|s)\s*(\d+) tried at position p: the number, or None
HintWordAt(s, p, w) ==
    IF ~StartsWithAt(s, p, w) THEN None
    ELSE LET q == p + Len(w) + SpaceRun(s, p + Len(w))
             d == DigitRun(s, q, Len(s))
         IN  IF d = 0 THEN None ELSE ToInt(s, q, d)

HintAt(s, p) ==
    IF HintWordAt(s, p, SeasonWords[1]) # None THEN HintWordAt(s, p, SeasonWords[1])
    ELSE IF HintWordAt(s, p, SeasonWords[2]) # None THEN HintWordAt(s, p, SeasonWords[2])
    ELSE HintWordAt(s, p, SeasonWords[3])

\* SEASON_HINT_PATTERN.search: the leftmost match
RECURSIVE SEASON_HINT_PATTERN_search(_, _)
SEASON_HINT_PATTERN_search(s, p) ==
    IF p > Len(s) THEN None
    ELSE IF HintAt(s, p) # None THEN HintAt(s, p)
    ELSE SEASON_HINT_PATTERN_search(s, p + 1)

\* SEASON_SHORT_PATTERN.match: (?i)^s(\d{1,2})$
SEASON_SHORT_PATTERN_match(s) ==
    IF Len(s) >= 2 /\ Lower(s[1]) = "s" /\ DigitRun(s, 2, 2) = Len(s) - 1
    THEN ToInt(s, 2, Len(s) - 1)
    ELSE None

\* the body of the loop of extract_season_hint for one path segment: the hint, or None
SegmentHint(part) ==
    LET normalized == Strip(part)
    IN  IF SPECIALS_PATTERN_fullmatch(normalized) THEN 0
        ELSE IF SEASON_HINT_PATTERN_search(normalized, 1) # None
             THEN SEASON_HINT_PATTERN_search(normalized, 1)
        ELSE SEASON_SHORT_PATTERN_match(normalized)

\* the loop run over list(parts) instead of reversed(list(parts))
RECURSIVE extract_season_hint_shallowest_first(_)
extract_season_hint_shallowest_first(parts) ==
    IF parts = <<>> THEN None
    ELSE IF SegmentHint(Head(parts)) # None THEN SegmentHint(Head(parts))
    ELSE extract_season_hint_shallowest_first(Tail(parts))

\* for part in reversed(list(parts)): the deepest segment first
RECURSIVE extract_season_hint(_)
extract_season_hint(parts) ==
    IF parts = <<>> THEN None
    ELSE IF SegmentHint(parts[Len(parts)]) # None THEN SegmentHint(parts[Len(parts)])
    ELSE extract_season_hint(SubSeq(parts, 1, Len(parts) - 1))

(***************************************************************************)
(* is_video_file.                                                          *)
(***************************************************************************)
VIDEO_EXTENSIONS ==
    { <<".", "m", "k", "v">>, <<".", "m", "p", "4">>, <<".", "a", "v", "i">>,
      <<".", "m", "o", "v">>, <<".", "t", "s">>, <<".", "w", "m", "v">>,
      <<".", "m", "p", "g">>, <<".", "m", "p", "e", "g">>, <<".", "f", "l", "v">>,
      <<".", "i", "s", "o">> }

\* os.path.splitext(name)[1]: from the last dot on, unless only dots come before it
splitext_ext(nm) ==
    LET dots == {i \in 1..Len(nm) : nm[i] = "."}
        last == CHOOSE i \in dots : \A j \in dots : j <= i
    IN  IF dots = {} \/ (\A j \in 1..(last - 1) : nm[j] = ".") THEN <<>>
        ELSE SubSeq(nm, last, Len(nm))

is_video_file(nm) == LowerStr(splitext_ext(nm)) \in VIDEO_EXTENSIONS

(***************************************************************************)
(* analyze_show.                                                           *)
(***************************************************************************)
SeqToSet(q) == {q[i] : i \in 1..Len(q)}

\* sorted(values): the elements of a finite set of integers in increasing order
RECURSIVE Sorted(_)
Sorted(S) ==
    IF S = {} THEN <<>>
    ELSE LET m == CHOOSE x \in S : \A y \in S : x <= y
         IN  <<m>> \o Sorted(S \ {m})

\* a bug the claims must exclude: the filter value > 0 is forgotten
normalize_episode_numbers_unfiltered(values) == Sorted(SeqToSet(values))

normalize_episode_numbers(values) == Sorted({v \in SeqToSet(values) : v > 0})

\* SeasonReport(season=s)
SeasonReport(s) == [season |-> s, episodes_present |-> <<>>, missing_episodes |-> <<>>]

\* seasons.setdefault(s, SeasonReport(season=s)), the dict afterwards
SetDefault(seasons, s) ==
    IF s \in DOMAIN seasons THEN seasons ELSE seasons @@ (s :> SeasonReport(s))

EmptyDict == [s \in {} |-> SeasonReport(s)]

\* a bug the claims must exclude: the directory's hint wins over the season of the file name
ResolveSeason_hint_first(season_candidate, season_hint) ==
    IF season_hint # None THEN season_hint ELSE season_candidate

\* a bug the claims must exclude: a match without any season is filed under season 1
ResolveSeason_default(season_candidate, season_hint) ==
    IF season_candidate # None THEN season_candidate
    ELSE IF season_hint # None THEN season_hint ELSE 1

\* season_number = season_candidate if season_candidate is not None else season_hint
ResolveSeason(season_candidate, season_hint) ==
    IF season_candidate # None THEN season_candidate ELSE season_hint

\* for season_candidate, episode_candidate in matches: ... (lines 545-551)
RECURSIVE ScanMatches(_, _, _)
ScanMatches(seasons, ms, season_hint) ==
    IF ms = <<>> THEN seasons
    ELSE LET season_number == ResolveSeason(Head(ms)[1], season_hint)
             ensured == SetDefault(seasons, season_number)
             appended == [ensured EXCEPT ![season_number].episodes_present =
                              Append(@, Head(ms)[2])]
         IN  IF season_number = None THEN ScanMatches(seasons, Tail(ms), season_hint)
             ELSE ScanMatches(appended, Tail(ms), season_hint)

\* the body of the loop over the files of one directory (lines 536-551)
ScanFile(seasons, file) ==
    LET season_hint == extract_season_hint(file.rel_parts)
        ms == extract_episode_matches(file.file_name)
    IN  IF ~is_video_file(file.file_name) THEN seasons
        ELSE IF ms = <<>>
             THEN (IF season_hint # None THEN SetDefault(seasons, season_hint) ELSE seasons)
        ELSE ScanMatches(seasons, ms, season_hint)

\* for current_root, _, files in os.walk(show_path): for file_name in files: ...
RECURSIVE WalkFiles(_, _)
WalkFiles(seasons, files) ==
    IF files = <<>> THEN seasons ELSE WalkFiles(ScanFile(seasons, Head(files)), Tail(files))

\* [num for num in range(1, max_episode + 1) if num not in episodes]
MissingUpTo(max_episode, episodes) ==
    Sorted({num \in 1..max_episode : num \notin SeqToSet(episodes)})

\* a bug the claims must exclude: the range starts at the first episode present
FinalizeSeason_from_first(rec) ==
    IF rec.episodes_present = <<>> THEN rec
    ELSE LET episodes == normalize_episode_numbers(rec.episodes_present)
         IN  IF episodes = <<>> THEN [rec EXCEPT !.episodes_present = episodes]
             ELSE [rec EXCEPT !.episodes_present = episodes,
                              !.missing_episodes =
                                  Sorted({num \in episodes[1]..episodes[Len(episodes)] :
                                              num \notin SeqToSet(episodes)})]

\* the body of the loop over seasons.values() (lines 552-559)
FinalizeSeason(rec) ==
    IF rec.episodes_present = <<>> THEN rec
    ELSE LET episodes == normalize_episode_numbers(rec.episodes_present)
         IN  IF episodes = <<>> THEN [rec EXCEPT !.episodes_present = episodes]
             ELSE [rec EXCEPT !.episodes_present = episodes,
                              !.missing_episodes =
                                  MissingUpTo(episodes[Len(episodes)], episodes)]

\* a bug the claims must exclude: a season without episode markers counts as absent
MissingSeasons_nonempty_only(seasons) ==
    LET season_numbers == Sorted({num \in DOMAIN seasons :
                                     num > 0 /\ seasons[num].episodes_present # <<>>})
    IN  IF season_numbers = <<>> THEN <<>>
        ELSE Sorted({n \in 1..season_numbers[Len(season_numbers)] :
                        n \notin SeqToSet(season_numbers)})

\* lines 560-567
MissingSeasons(seasons) ==
    LET season_numbers == Sorted({num \in DOMAIN seasons : num > 0})
    IN  IF season_numbers = <<>> THEN <<>>
        ELSE Sorted({n \in 1..season_numbers[Len(season_numbers)] :
                        n \notin SeqToSet(season_numbers)})

\* a bug the claims must exclude: a candidate replaces the local gaps instead of extending them
analyze_show_trusting(show_name, files, metadata) ==
    LET seasons == WalkFiles(EmptyDict, files)
        finalized == [s \in DOMAIN seasons |-> FinalizeSeason(seasons[s])]
    IN  [name |-> show_name,
         seasons |-> IF metadata.url = "" THEN finalized
                     ELSE [s \in DOMAIN finalized |->
                              [finalized[s] EXCEPT !.missing_episodes = <<>>]],
         missing_seasons |-> IF metadata.url = "" THEN MissingSeasons(finalized) ELSE <<>>,
         csfd |-> metadata]

\* analyze_show(show_name, show_path, metadata): files is what os.walk(show_path) yields
analyze_show(show_name, files, metadata) ==
    LET seasons == WalkFiles(EmptyDict, files)
        finalized == [s \in DOMAIN seasons |-> FinalizeSeason(seasons[s])]
    IN  [name |-> show_name,
         seasons |-> finalized,
         missing_seasons |-> MissingSeasons(finalized),
         csfd |-> metadata]

\* CSFDShowCandidate; NoCandidate stands for None (no candidate, metadata = None)
NoCandidate == [id |-> None, title |-> <<>>, year |-> None, original_title |-> <<>>,
                origins |-> <<>>, url |-> ""]

(***************************************************************************)
(* derive_show_search_query.                                               *)
(***************************************************************************)
IsAsciiLetter(c) == \E i \in 1..26 : UpperCase[i] = c \/ LowerCase[i] = c
\* the characters SHOW_NON_ALNUM leaves alone
IsShowAlnum(c) == IsDigit(c) \/ IsAsciiLetter(c) \/ c \in AccentedLetters \/ c = " "

\* (?:19|20)\d{2} at position p
CenturyYearAt(s, p) ==
    /\ p + 3 <= Len(s)
    /\ <<s[p], s[p + 1]>> \in {<<"1", "9">>, <<"2", "0">>}
    /\ IsDigit(s[p + 2]) /\ IsDigit(s[p + 3])

\* length of the match of SHOW_YEAR_PATTERN at position p, 0 without a match
ShowYearAt(s, p) ==
    IF ~(p <= Len(s) /\ s[p] = "(" /\ CenturyYearAt(s, p + 1)) THEN 0
    ELSE IF p + 5 <= Len(s) /\ s[p + 5] = ")" THEN 6
    ELSE IF p + 10 <= Len(s) /\ s[p + 5] = "/" /\ CenturyYearAt(s, p + 6) /\ s[p + 10] = ")"
         THEN 11
    ELSE 0

\* SHOW_YEAR_PATTERN.sub(" ", name)
RECURSIVE SubShowYear(_, _)
SubShowYear(s, p) ==
    IF p > Len(s) THEN <<>>
    ELSE IF ShowYearAt(s, p) > 0 THEN <<" ">> \o SubShowYear(s, p + ShowYearAt(s, p))
    ELSE <<s[p]>> \o SubShowYear(s, p + 1)

\* SHOW_NON_ALNUM.sub(" ", cleaned): each run of other characters becomes one space
RECURSIVE SubNonAlnum(_, _)
SubNonAlnum(s, p) ==
    IF p > Len(s) THEN <<>>
    ELSE IF IsShowAlnum(s[p]) THEN <<s[p]>> \o SubNonAlnum(s, p + 1)
    ELSE IF p > 1 /\ ~IsShowAlnum(s[p - 1]) THEN SubNonAlnum(s, p + 1)
    ELSE <<" ">> \o SubNonAlnum(s, p + 1)

\* SHOW_WHITESPACE.sub(" ", cleaned): each run of whitespace becomes one space
RECURSIVE SubWhitespace(_, _)
SubWhitespace(s, p) ==
    IF p > Len(s) THEN <<>>
    ELSE IF ~IsSpace(s[p]) THEN <<s[p]>> \o SubWhitespace(s, p + 1)
    ELSE IF p > 1 /\ IsSpace(s[p - 1]) THEN SubWhitespace(s, p + 1)
    ELSE <<" ">> \o SubWhitespace(s, p + 1)

derive_show_search_query(nm) ==
    IF nm = <<>> THEN <<>>
    ELSE Strip(SubWhitespace(SubNonAlnum(SubShowYear(nm, 1), 1), 1))

(***************************************************************************)
(* fetch_csfd_results, fetch_csfd_show_detail and CSFDLookup.              *)
(***************************************************************************)
Take(q, n) == SubSeq(q, 1, IF n < Len(q) THEN n ELSE Len(q))
Max2(a, b) == IF a >= b THEN a ELSE b

\* sub in text (both sequences of characters)
InStr(sub, text) ==
    \E p \in 1..(Len(text) + 1) :
        p + Len(sub) - 1 <= Len(text) /\ SubSeq(text, p, p + Len(sub) - 1) = sub

\* MovieSearchParser(limit) fed a page of title anchors: the first limit hits whose
\* title is not blank, in page order
ParseSearchPage(page, limit) ==
    Take(SelectSeq(page, LAMBDA hit : Strip(hit.title) # <<>>), limit)

\* What the transport does with a request: kind "ok" (a response arrives), "urlerror"
\* (urlopen raises URLError) or "raises" (an error that is not a URLError, such as a
\* timeout while the response is read); the Content-Encoding of the response
\* ("identity", "gzip", "deflate") and its payload: "good", "corrupt" (not a compressed
\* stream, or a damaged one) or "truncated" (the stream ends early).
Response(kind, encoding, payload) == [kind |-> kind, encoding |-> encoding, payload |-> payload]
Compressed == {"gzip", "deflate"}

\* fetch_csfd_results without its first two lines (if not query: return [])
fetch_csfd_results_no_query_check(query, limit, net, page) ==
    IF net.kind = "urlerror"
    THEN [raised |-> FALSE, requested |-> TRUE, results |-> <<>>]
    ELSE IF net.kind = "raises"
    THEN [raised |-> TRUE, requested |-> TRUE, results |-> <<>>]
    ELSE IF net.encoding \in Compressed /\ net.payload # "good"
    THEN [raised |-> TRUE, requested |-> TRUE, results |-> <<>>]
    ELSE IF net.payload # "good"
    THEN [raised |-> FALSE, requested |-> TRUE, results |-> <<>>]
    ELSE [raised |-> FALSE, requested |-> TRUE, results |-> ParseSearchPage(page, limit)]

\* fetch_csfd_results(query, limit): what it returns, or that it raised.  net is what
\* the transport does with the request.  gzip.decompress and zlib.decompress run inside
\* the try block, whose only handler is for URLError (lines 201-212).
fetch_csfd_results(query, limit, net, page) ==
    IF query = <<>> THEN [raised |-> FALSE, requested |-> FALSE, results |-> <<>>]
    ELSE IF net.kind = "urlerror"
    THEN [raised |-> FALSE, requested |-> TRUE, results |-> <<>>]
    ELSE IF net.kind = "raises"
    THEN [raised |-> TRUE, requested |-> TRUE, results |-> <<>>]
    ELSE IF net.encoding \in Compressed /\ net.payload # "good"
    THEN [raised |-> TRUE, requested |-> TRUE, results |-> <<>>]
    ELSE IF net.payload # "good"
    THEN [raised |-> FALSE, requested |-> TRUE, results |-> <<>>]
    ELSE [raised |-> FALSE, requested |-> TRUE, results |-> ParseSearchPage(page, limit)]

\* the {} fetch_csfd_show_detail returns without a page
EmptyDetail == [empty |-> TRUE, original_title |-> <<>>, origins |-> <<>>, media_type |-> <<>>]

\* parse_csfd_show_detail(html) for a page that shows the given media type
parse_csfd_show_detail(html) ==
    [empty |-> FALSE, original_title |-> html.original_title, origins |-> html.origins,
     media_type |-> Strip(html.media_type)]

\* what decoding bytes that are not the page gives: text without any of the markup
GarbageHtml == [original_title |-> <<>>, origins |-> <<>>, media_type |-> <<>>]

\* _decode_csfd_payload(raw, encoding): OSError (BadGzipFile), zlib.error and
\* UnicodeDecodeError fall back to decoding the raw bytes; the EOFError of gzip.decompress
\* for a stream that ends early is not among them
_decode_csfd_payload(net) ==
    IF net.payload = "good" THEN [raised |-> FALSE, html |-> net.html]
    ELSE IF net.encoding = "gzip" /\ net.payload = "truncated"
    THEN [raised |-> TRUE, html |-> GarbageHtml]
    ELSE [raised |-> FALSE, html |-> GarbageHtml]

\* @lru_cache(maxsize=128)
LRU_MAXSIZE == 128
CacheHas(c, url) == \E i \in 1..Len(c) : c[i].url = url
CacheGet(c, url) == c[CHOOSE i \in 1..Len(c) : c[i].url = url].result
\* a hit makes the entry the most recent one
CacheHit(c, url) ==
    SelectSeq(c, LAMBDA e : e.url # url) \o <<[url |-> url, result |-> CacheGet(c, url)]>>
\* a cache that evicts one entry too early
CachePut_evicts_early(c, url, result) ==
    (IF Len(c) >= LRU_MAXSIZE - 1 THEN Tail(c) ELSE c) \o <<[url |-> url, result |-> result]>>
\* a miss stores the result, evicting the least recently used entry of a full cache
CachePut(c, url, result) ==
    (IF Len(c) >= LRU_MAXSIZE THEN Tail(c) ELSE c) \o <<[url |-> url, result |-> result]>>

\* a fetch that does not keep the {} of a URLError: the except branch outside the cache
fetch_csfd_show_detail_forgets_failures(c, url, net) ==
    IF CacheHas(c, url)
    THEN [raised |-> FALSE, downloaded |-> FALSE, detail |-> CacheGet(c, url),
          cache |-> CacheHit(c, url)]
    ELSE IF url = ""
    THEN [raised |-> FALSE, downloaded |-> FALSE, detail |-> EmptyDetail,
          cache |-> CachePut(c, url, EmptyDetail)]
    ELSE IF net.kind = "urlerror"
    THEN [raised |-> FALSE, downloaded |-> TRUE, detail |-> EmptyDetail, cache |-> c]
    ELSE IF net.kind = "raises" \/ _decode_csfd_payload(net).raised
    THEN [raised |-> TRUE, downloaded |-> TRUE, detail |-> EmptyDetail, cache |-> c]
    ELSE [raised |-> FALSE, downloaded |-> TRUE,
          detail |-> parse_csfd_show_detail(_decode_csfd_payload(net).html),
          cache |-> CachePut(c, url, parse_csfd_show_detail(_decode_csfd_payload(net).html))]

\* fetch_csfd_show_detail(url) with the cache c; net is what the transport does if the
\* page is requested: a Response with the page it carries in html
fetch_csfd_show_detail(c, url, net) ==
    IF CacheHas(c, url)
    THEN [raised |-> FALSE, downloaded |-> FALSE, detail |-> CacheGet(c, url),
          cache |-> CacheHit(c, url)]
    ELSE IF url = ""
    THEN [raised |-> FALSE, downloaded |-> FALSE, detail |-> EmptyDetail,
          cache |-> CachePut(c, url, EmptyDetail)]
    ELSE IF net.kind = "urlerror"
    THEN [raised |-> FALSE, downloaded |-> TRUE, detail |-> EmptyDetail,
          cache |-> CachePut(c, url, EmptyDetail)]
    ELSE IF net.kind = "raises" \/ _decode_csfd_payload(net).raised
    THEN [raised |-> TRUE, downloaded |-> TRUE, detail |-> EmptyDetail, cache |-> c]
    ELSE [raised |-> FALSE, downloaded |-> TRUE,
          detail |-> parse_csfd_show_detail(_decode_csfd_payload(net).html),
          cache |-> CachePut(c, url, parse_csfd_show_detail(_decode_csfd_payload(net).html))]

Word_filmy == <<"f", "i", "l", "m", "y">>
Word_seri == <<"s", "e", "r", "i">>

\* a bug the claims must exclude: the placeholder entry is treated as a hit
SkippedEntry_keep_filmy(entry) ==
    \/ Strip(entry.title) = <<>>
    \/ entry.url = ""

\* the entry is dropped before its detail page is asked for (lines 257-264)
SkippedEntry(entry) ==
    \/ Strip(entry.title) = <<>>
    \/ LowerStr(Strip(entry.title)) = Word_filmy
    \/ entry.url = ""

\* a bug the claims must exclude: an entry without a media type is dropped as well
DroppedByDetail_untyped_too(detail) ==
    \/ detail.empty
    \/ ~InStr(Word_seri, LowerStr(detail.media_type))

\* the media-type filter (lines 266-270): the entry is dropped after its detail fetch
DroppedByDetail(detail) ==
    \/ detail.empty
    \/ LowerStr(detail.media_type) # <<>> /\ ~InStr(Word_seri, LowerStr(detail.media_type))

\* CSFD_ID_PATTERN of the urls of the model: /film/<id>-
extract_csfd_id(url) ==
    CASE url = "https://www.csfd.cz/film/1-a/" -> 1
      [] url = "https://www.csfd.cz/film/2-b/" -> 2
      [] url = "https://www.csfd.cz/film/3-c/" -> 3
      [] url = "https://www.csfd.cz/film/4-d/" -> 4
      [] url = "https://www.csfd.cz/film/5-e/" -> 5
      [] OTHER -> None

\* CSFDShowCandidate(...) of lines 272-281
BuildCandidate(entry, detail) ==
    [id |-> extract_csfd_id(entry.url),
     title |-> Strip(entry.title),
     year |-> entry.year,
     original_title |-> IF detail.original_title # <<>> THEN detail.original_title
                        ELSE Strip(entry.title),
     origins |-> detail.origins,
     url |-> entry.url]

\* one iteration of the loop of _build_candidates: acc is the state of the call
BuildStep(acc, entry, net) ==
    LET f == fetch_csfd_show_detail(acc.cache, entry.url, net)
        fetched == [acc EXCEPT !.cache = f.cache,
                               !.raised = f.raised,
                               !.detailCalls = Append(@, entry.url),
                               !.downloads = IF f.downloaded THEN Append(@, entry.url) ELSE @]
    IN  IF acc.raised \/ SkippedEntry(entry) THEN acc
        ELSE IF f.raised \/ DroppedByDetail(f.detail) THEN fetched
        ELSE [fetched EXCEPT !.built = Append(@, BuildCandidate(entry, f.detail))]

\* _build_candidates(entries); nets[i] is what the transport does for entry i
RECURSIVE BuildCandidates(_, _, _, _)
BuildCandidates(acc, entries, nets, i) ==
    IF i > Len(entries) THEN acc
    ELSE BuildCandidates(BuildStep(acc, entries[i], nets[i]), entries, nets, i + 1)

\* a bug the claims must exclude: no more raw hits are asked for than are shown
fetch_limit_no_overfetch(max_results) == max_results

\* fetch_limit = max(self.max_results, self.max_results * 3)
fetch_limit(max_results) == Max2(max_results, max_results * 3)

\* a bug the claims must exclude: the chooser is asked about a single candidate as well
resolve_always_choose(c, max_results, display_name, searchNet, page, nets, choice) ==
    LET query == derive_show_search_query(display_name)
        search == fetch_csfd_results(query, fetch_limit(max_results), searchNet, page)
        start == [cache |-> c, raised |-> FALSE, detailCalls |-> <<>>, downloads |-> <<>>,
                  built |-> <<>>]
        b == BuildCandidates(start, search.results, nets, 1)
        candidates == Take(b.built, max_results)
        base == [display_name |-> display_name, page |-> page, nets |-> nets, query |-> query,
                 searched |-> FALSE, results |-> <<>>, detailCalls |-> <<>>,
                 downloads |-> <<>>, candidates |-> <<>>, chooserCalls |-> 0,
                 chooserArgs |-> <<>>, chooserReturn |-> NoCandidate,
                 status |-> "returned", result |-> NoCandidate, cache |-> c]
    IN  IF query = <<>> THEN base
        ELSE IF search.raised THEN [base EXCEPT !.searched = TRUE, !.status = "raised"]
        ELSE LET built == [base EXCEPT !.searched = search.requested,
                                       !.results = search.results,
                                       !.detailCalls = b.detailCalls,
                                       !.downloads = b.downloads,
                                       !.cache = b.cache]
             IN  IF b.raised THEN [built EXCEPT !.status = "raised"]
                 ELSE IF candidates = <<>> THEN [built EXCEPT !.candidates = candidates]
                 ELSE LET selection == IF choice \in 1..Len(candidates)
                                       THEN candidates[choice] ELSE NoCandidate
                      IN  [built EXCEPT !.candidates = candidates,
                                        !.chooserCalls = 1,
                                        !.chooserArgs = candidates,
                                        !.chooserReturn = selection,
                                        !.result = selection]

\* CSFDLookup.resolve(display_name).  searchNet, page and nets are what the network
\* does; choice is what the chooser answers if asked (0: no selection, i: option i).
resolve(c, max_results, display_name, searchNet, page, nets, choice) ==
    LET query == derive_show_search_query(display_name)
        search == fetch_csfd_results(query, fetch_limit(max_results), searchNet, page)
        start == [cache |-> c, raised |-> FALSE, detailCalls |-> <<>>, downloads |-> <<>>,
                  built |-> <<>>]
        b == BuildCandidates(start, search.results, nets, 1)
        candidates == Take(b.built, max_results)
        base == [display_name |-> display_name, page |-> page, nets |-> nets, query |-> query,
                 searched |-> FALSE, results |-> <<>>, detailCalls |-> <<>>,
                 downloads |-> <<>>, candidates |-> <<>>, chooserCalls |-> 0,
                 chooserArgs |-> <<>>, chooserReturn |-> NoCandidate,
                 status |-> "returned", result |-> NoCandidate, cache |-> c]
    IN  IF query = <<>> THEN base
        ELSE IF search.raised THEN [base EXCEPT !.searched = TRUE, !.status = "raised"]
        ELSE LET built == [base EXCEPT !.searched = search.requested,
                                       !.results = search.results,
                                       !.detailCalls = b.detailCalls,
                                       !.downloads = b.downloads,
                                       !.cache = b.cache]
             IN  IF b.raised THEN [built EXCEPT !.status = "raised"]
                 ELSE IF candidates = <<>> THEN [built EXCEPT !.candidates = candidates]
                 ELSE IF Len(candidates) = 1
                      THEN [built EXCEPT !.candidates = candidates, !.result = candidates[1]]
                 ELSE LET selection == IF choice \in 1..Len(candidates)
                                       THEN candidates[choice] ELSE NoCandidate
                      IN  [built EXCEPT !.candidates = candidates,
                                        !.chooserCalls = 1,
                                        !.chooserArgs = candidates,
                                        !.chooserReturn = selection,
                                        !.result = selection]

(***************************************************************************)
(* The inputs of the model.                                                *)
(***************************************************************************)
\* the characters file names are drawn from when extract_episode_matches is checked alone
NameAlphabet == {"S", "e", "x", "1", "2", "-"}
NameInputs == UNION {[1..k -> NameAlphabet] : k \in 0..MaxNameLen}

Ext_ts == <<".", "t", "s">>
Ext_nfo == <<".", "n", "f", "o">>
Dir_root == <<>>
Dir_S1 == << <<"S", "1">> >>
Dir_Season03 == << <<"S", "e", "a", "s", "o", "n", " ", "0", "3">> >>
Dir_Specials == << <<"S", "p", "e", "c", "i", "a", "l", "s">> >>

File(parts, nm) == [rel_parts |-> parts, file_name |-> nm]

\* the files a show directory may hold: every way a file can map to a season
FileChoices ==
    { File(Dir_S1, <<"S", "1", "E", "0", "1">> \o Ext_ts),
      File(Dir_S1, <<"S", "0", "1", "E", "0", "3">> \o Ext_ts),
      File(Dir_S1, <<"s", "2", "e", "1">> \o Ext_ts),
      File(Dir_S1, <<"S", "1", "E", "2">> \o Ext_nfo),
      File(Dir_S1, <<"S", "1", "E", "0">> \o Ext_ts),
      File(Dir_Season03, <<"E", "2">> \o Ext_ts),
      File(Dir_Season03, <<"a">> \o Ext_ts),
      File(Dir_Specials, <<"E", "1">> \o Ext_ts),
      File(Dir_root, <<"E", "2">> \o Ext_ts),
      File(Dir_root, <<"a">> \o Ext_ts),
      File(Dir_root, <<"2", "x", "0", "2">> \o Ext_ts),
      File(Dir_root, <<"S", "1", "E", "0", "1">> \o Ext_ts),
      File(Dir_root, <<"S", "4", "E", "1", "-", "S", "4", "E", "3">> \o Ext_ts) }

Title_Show == <<"S", "h", "o", "w">>
\* the candidate handed to analyze_show as metadata
Candidate == [id |-> 123, title |-> Title_Show, year |-> None, original_title |-> Title_Show,
              origins |-> <<>>, url |-> "https://www.csfd.cz/film/123-show/"]

\* what the remote site lists for the show of the candidate: episodes per season, seasons
NoRemote == [season_episode_counts |-> [s \in {} |-> 0], total_seasons |-> None]
RemoteChoices ==
    { [season_episode_counts |-> (1 :> 4 @@ 2 :> 4), total_seasons |-> 5],
      [season_episode_counts |-> (1 :> 1), total_seasons |-> 1],
      [season_episode_counts |-> (4 :> 3), total_seasons |-> None] }

NoReport == [name |-> "", seasons |-> EmptyDict, missing_seasons |-> <<>>,
             csfd |-> NoCandidate]

\* the show names resolve is called with: "Show (2005)" and "(2005)"
DisplayNames == { Title_Show \o <<" ", "(", "2", "0", "0", "5", ")">>,
                  <<"(", "2", "0", "0", "5", ")">> }

\* the urls of the hits of a search page, by position
UrlOf == <<"https://www.csfd.cz/film/1-a/", "https://www.csfd.cz/film/2-b/",
           "https://www.csfd.cz/film/3-c/", "https://www.csfd.cz/film/4-d/",
           "https://www.csfd.cz/film/5-e/">>
Title_Filmy == <<"F", "i", "l", "m", "y">>
Title_blank == <<" ">>
Type_Film == <<"F", "i", "l", "m">>
Type_Serial == <<"S", "e", "r", "i", "a-acute", "l">>
DetailHtml(media_type) ==
    [original_title |-> <<"O">>, origins |-> <<"USA">>, media_type |-> media_type]
\* what the transport may do with the request of a detail page
DetailResponse(kind, encoding, payload, html) ==
    [kind |-> kind, encoding |-> encoding, payload |-> payload, html |-> html]
DetailNets == { DetailResponse("ok", "identity", "good", DetailHtml(Type_Film)),
                DetailResponse("ok", "identity", "good", DetailHtml(Type_Serial)),
                DetailResponse("ok", "identity", "good", DetailHtml(<<>>)),
                DetailResponse("urlerror", "identity", "good", DetailHtml(<<>>)),
                DetailResponse("raises", "identity", "good", DetailHtml(<<>>)) }
NoNet == DetailResponse("urlerror", "identity", "good", DetailHtml(<<>>))
\* a hit of a search page together with what the transport does for its detail page
\* (nothing to choose for a hit that is dropped before the detail page is asked for)
HitKinds == {[title |-> Title_Show, net |-> n] : n \in DetailNets}
            \cup {[title |-> t, net |-> NoNet] : t \in {Title_Filmy, Title_blank}}
\* the search pages, up to MaxHits title anchors each, with the transport's behaviour
Scenarios == UNION {[1..k -> HitKinds] : k \in 0..MaxHits}
PageOf(sc) == [i \in 1..Len(sc) |-> [title |-> sc[i].title, year |-> 2000 + i, url |-> UrlOf[i]]]
NetsOf(sc) == [i \in 1..Len(sc) |-> sc[i].net]
Net_ok == Response("ok", "identity", "good")
SearchNets == {Net_ok, Response("urlerror", "identity", "good"),
               Response("raises", "identity", "good")}

DEFAULT_CSFD_MAX_RESULTS == 5

NoLookup == [display_name |-> <<>>, page |-> <<>>, nets |-> <<>>, query |-> <<>>,
             searched |-> FALSE, results |-> <<>>, detailCalls |-> <<>>,
             downloads |-> <<>>, candidates |-> <<>>, chooserCalls |-> 0,
             chooserArgs |-> <<>>, chooserReturn |-> NoCandidate,
             status |-> "none", result |-> NoCandidate, cache |-> <<>>]

(***************************************************************************)
(* extract_episode_matches applied to a file name.                         *)
(***************************************************************************)
ExtractIdle == name = <<>> /\ matches = <<>> /\ exPc = "input"
AnalyzeIdle == tree = <<>> /\ remote = NoRemote /\ report = NoReport /\ reportMeta = NoReport
LookupIdle == maxResults = DEFAULT_CSFD_MAX_RESULTS /\ cache = <<>> /\ lookup = NoLookup
MainIdle ==
    /\ csfdEnabled = TRUE /\ shows = <<>> /\ lookups = <<>> /\ reports = <<>>
    /\ mainPc = "idle"
    /\ answers = <<>>
NoFetch == [fn |-> "none", status |-> "none", requests |-> 0]
FetchIdle == fetchLog = <<>> /\ fetchOut = NoFetch
\* a title anchor's dict before it has a title; also stands for _current = None
NoHit == [title |-> <<>>, year |-> None, url |-> ""]
\* _year_target: "none", "current", "orphan" (a dict that is neither _current nor in
\* results any more) or "result" with the index of a result
Target(kind, index) == [kind |-> kind, index |-> index]
NoTarget == Target("none", 0)
\* MovieSearchParser(limit).__init__
MovieSearchParser(limit) ==
    [limit |-> limit, results |-> <<>>, has_current |-> FALSE, current |-> NoHit,
     capture_title |-> FALSE, capture_year |-> FALSE, year_target |-> NoTarget]
ParserIdle == parser = MovieSearchParser(0) /\ fed = <<>>
HintIdle == hintParts = <<>> /\ hintOut = None /\ hintPc = "input"
RemapIdle == remapPath = <<>> /\ remapMapping = <<>> /\ remapOut = <<>> /\ remapPc = "input"
UsedIdle == used = <<>>
\* CSFDShowDetailParser().__init__; None and "" are both the empty text
CSFDShowDetailParser ==
    [in_origin |-> FALSE, origin_span_depth |-> 0, origin_parts |-> <<>>,
     in_names_list |-> FALSE, capturing_name |-> FALSE, name_suppressed |-> 0,
     name_parts |-> <<>>, original_title |-> <<>>, origins |-> <<>>,
     media_type |-> <<>>, capturing_type |-> FALSE]
DetailIdle == detailParser = CSFDShowDetailParser /\ detailFed = <<>>
LibIdle ==
    disk = <<>> /\ libFiles = <<>> /\ dir_mapping = <<>> /\ libLog = <<>> /\ libPc = "idle"
HelperIdle == HintIdle /\ RemapIdle /\ UsedIdle /\ DetailIdle /\ LibIdle
RestIdle == MainIdle /\ FetchIdle /\ ParserIdle /\ HelperIdle

InitExtract ==
    /\ name \in NameInputs
    /\ matches = <<>>
    /\ exPc = "input"
    /\ AnalyzeIdle
    /\ LookupIdle
    /\ RestIdle

ExtractEpisodeMatches ==
    /\ exPc = "input"
    /\ matches' = extract_episode_matches(name)
    /\ exPc' = "done"
    /\ UNCHANGED <<name, analyzeVars, lookupVars, restVars>>

NextExtract == ExtractEpisodeMatches

SpecExtract == InitExtract /\ [][NextExtract]_vars

(***************************************************************************)
(* analyze_show over a show directory.                                     *)
(***************************************************************************)
Init ==
    /\ ExtractIdle
    /\ AnalyzeIdle
    /\ LookupIdle
    /\ RestIdle

\* a video or other file is put into the show directory before it is analyzed
Touch(f) ==
    /\ report = NoReport /\ reportMeta = NoReport
    /\ Len(tree) < MaxFiles
    /\ f \notin SeqToSet(tree)
    /\ tree' = Append(tree, f)
    /\ UNCHANGED <<remote, report, reportMeta, extractVars, lookupVars, restVars>>

\* analyze_show(show_name, show_path)
AnalyzeShow ==
    /\ report = NoReport
    /\ report' = analyze_show("Show", tree, NoCandidate)
    /\ UNCHANGED <<tree, remote, reportMeta, extractVars, lookupVars, restVars>>

\* analyze_show(show_name, show_path, metadata=candidate), the site listing r for the candidate
AnalyzeShowWithMetadata(r) ==
    /\ reportMeta = NoReport
    /\ remote' = r
    /\ reportMeta' = analyze_show("Show", tree, Candidate)
    /\ UNCHANGED <<tree, report, extractVars, lookupVars, restVars>>

Next ==
    \/ \E f \in FileChoices : Touch(f)
    \/ AnalyzeShow
    \/ \E r \in RemoteChoices : AnalyzeShowWithMetadata(r)

Spec == Init /\ [][Next]_vars

(***************************************************************************)
(* CSFDLookup.resolve for a show.                                          *)
(***************************************************************************)
\* CSFDLookup(max_results=m): self.max_results = max(1, max_results)
InitLookup ==
    /\ ExtractIdle
    /\ AnalyzeIdle
    /\ maxResults \in {Max2(1, m) : m \in 0..MaxResultsBound}
    /\ cache = <<>>
    /\ lookup = NoLookup
    /\ RestIdle

Resolve(display_name, searchNet, page, nets, choice) ==
    /\ lookup.status = "none"
    /\ lookup' = resolve(cache, maxResults, display_name, searchNet, page, nets, choice)
    /\ cache' = lookup'.cache
    /\ UNCHANGED <<maxResults, extractVars, analyzeVars, restVars>>

\* the names derive_show_search_query leaves nothing of
NoQueryNames == {d \in DisplayNames : derive_show_search_query(d) = <<>>}
\* a name without a query is given no page, since none is asked for
ScenariosFor(display_name) == IF display_name \in NoQueryNames THEN {<<>>} ELSE Scenarios

\* the search request is answered with a page
ResolveSearchAnswered ==
    /\ lookup.status = "none"
    /\ \E display_name \in DisplayNames : \E sc \in ScenariosFor(display_name) :
           \E choice \in 0..maxResults :
               Resolve(display_name, Net_ok, PageOf(sc), NetsOf(sc), choice)

\* the search request fails: with a URLError, or with an error that is not one
ResolveSearchFailed ==
    /\ lookup.status = "none"
    /\ \E display_name \in DisplayNames : \E searchNet \in SearchNets \ {Net_ok} :
           Resolve(display_name, searchNet, <<>>, <<>>, 0)

NextLookup == ResolveSearchAnswered \/ ResolveSearchFailed

SpecLookup == InitLookup /\ [][NextLookup]_vars

(***************************************************************************)
(* main: every show is resolved, analyzed and reported.                    *)
(***************************************************************************)
\* the show directories discover_shows may find, in sorted order, with their files
Name_Year == <<"(", "2", "0", "0", "5", ")">>
Name_Show2005 == Title_Show \o <<" ">> \o Name_Year
Name_Show2 == Title_Show \o <<" ", "2">>
ShowPool ==
    << [name |-> Name_Year,
        tree |-> << File(Dir_root, <<"S", "1", "E", "0", "1">> \o Ext_ts) >>],
       [name |-> Name_Show2005,
        tree |-> << File(Dir_S1, <<"S", "0", "1", "E", "0", "3">> \o Ext_ts) >>],
       [name |-> Name_Show2,
        tree |-> << File(Dir_Season03, <<"a">> \o Ext_ts) >>] >>
\* shows_to_process: all the shows found, or the one selected with --show
ShowLists ==
    { [i \in 1..Cardinality(S) |-> ShowPool[Sorted(S)[i]]] :
          S \in {T \in SUBSET (1..Len(ShowPool)) : Cardinality(T) <= MaxShows} }

\* what the site and the transport do while one show is resolved
Hit_Series ==
    [title |-> Title_Show,
     net |-> DetailResponse("ok", "identity", "good", DetailHtml(Type_Serial))]
Hit_DetailUrlError == [title |-> Title_Show, net |-> NoNet]
Hit_DetailTimeout ==
    [title |-> Title_Show,
     net |-> DetailResponse("raises", "identity", "good", DetailHtml(<<>>))]
MainScenarios ==
    {[searchNet |-> Net_ok, sc |-> x] :
         x \in { <<>>, <<Hit_Series>>, <<Hit_Series, Hit_Series>>, <<Hit_DetailTimeout>>,
                 <<Hit_DetailUrlError, Hit_Series>> }}
    \cup {[searchNet |-> n, sc |-> <<>>] : n \in SearchNets \ {Net_ok}}
\* what the user does when select_csfd_candidate shows the candidates: curses is
\* supports_curses() (CSFDShowSelectionTUI, whose help line reads "q abort", or the
\* prompt, which reads "Type 'q' to skip"), key is the key that ends the selection and
\* selected the row or number accepted
Answer(curses, key, selected) == [curses |-> curses, key |-> key, selected |-> selected]
NoAnswer == Answer(FALSE, "none", 0)
MainAnswers ==
    {Answer(c, "enter", s) : c \in BOOLEAN, s \in 1..2} \cup {Answer(c, "q", 0) : c \in BOOLEAN}
\* select_csfd_candidate asked for more than one candidate: the option it returns, 0 for
\* None.  q gives selected_idx = None in the TUI and at the prompt alike.
select_csfd_candidate(answer) == IF answer.key = "q" THEN 0 ELSE answer.selected

InitMain ==
    /\ ExtractIdle
    /\ AnalyzeIdle
    /\ LookupIdle
    /\ csfdEnabled \in BOOLEAN
    /\ shows \in ShowLists
    /\ lookups = <<>>
    /\ reports = <<>>
    /\ mainPc = IF shows = <<>> THEN "nothing" ELSE "loop"
    /\ answers = <<>>
    /\ FetchIdle
    /\ ParserIdle
    /\ HelperIdle

\* one iteration of the loop of main (lines 677-681) with a lookup: resolve, then
\* analyze_show and reports.append unless resolve raised
MainIteration(searchNet, sc, answer) ==
    /\ mainPc = "loop"
    /\ csfdEnabled
    /\ lookups' = Append(lookups, resolve(cache, maxResults, shows[Len(reports) + 1].name,
                                          searchNet, PageOf(sc), NetsOf(sc),
                                          select_csfd_candidate(answer)))
    /\ LET show == shows[Len(reports) + 1]
           r == lookups'[Len(lookups')]
       IN  /\ cache' = r.cache
           /\ answers' = Append(answers, IF r.chooserCalls = 1 THEN answer ELSE NoAnswer)
           /\ IF r.status = "raised"
              THEN /\ reports' = reports
                   /\ mainPc' = "aborted"
              ELSE /\ reports' = Append(reports, analyze_show(show.name, show.tree, r.result))
                   /\ mainPc' = IF Len(reports') = Len(shows) THEN "done" ELSE "loop"
    /\ UNCHANGED <<csfdEnabled, shows, maxResults, lookup, extractVars, analyzeVars,
                   fetchVars, parserVars, helperVars>>

\* one iteration of the loop under --no-csfd: csfd_metadata = None
MainIterationNoCsfd ==
    /\ mainPc = "loop"
    /\ ~csfdEnabled
    /\ LET show == shows[Len(reports) + 1]
       IN  /\ lookups' = Append(lookups, NoLookup)
           /\ answers' = Append(answers, NoAnswer)
           /\ reports' = Append(reports, analyze_show(show.name, show.tree, NoCandidate))
           /\ mainPc' = IF Len(reports') = Len(shows) THEN "done" ELSE "loop"
    /\ UNCHANGED <<csfdEnabled, shows, lookupVars, extractVars, analyzeVars, fetchVars,
                   parserVars, helperVars>>

NextMain ==
    \/ \E m \in MainScenarios : \E answer \in MainAnswers :
           MainIteration(m.searchNet, m.sc, answer)
    \/ MainIterationNoCsfd

SpecMain == InitMain /\ [][NextMain]_vars

(***************************************************************************)
(* fetch_csfd_results and fetch_csfd_show_detail called one after another. *)
(***************************************************************************)
\* the season lists the site shows for a series, one mapping season -> episodes per page
Page_A == (1 :> 13 @@ 2 :> 22)
Page_B == (3 :> 24 @@ 4 :> 22)
\* the detail page of a series whose season list is served as the given pages
PagedHtml(pages) ==
    [original_title |-> <<"O">>, origins |-> <<"USA">>, media_type |-> Type_Serial,
     season_pages |-> pages]
SeasonPagings == { <<Page_A>>, <<Page_A, Page_B>>, <<Page_B, Page_A>>,
                   <<Page_A, Page_B, Page_A>> }
\* the ways a response can be encoded and damaged
Encodings == {"identity", "gzip", "deflate"}
Payloads == {"good", "corrupt", "truncated"}
FetchResponses ==
    {Response("ok", e, p) : e \in Encodings, p \in Payloads}
    \cup {Response("urlerror", "identity", "good"), Response("raises", "identity", "good")}
FetchQueries == {<<>>, Title_Show}
FetchPages == {PageOf(sc) : sc \in [1..2 -> {Hit_Series}] \cup {<<>>}}
FetchUrls == {"", UrlOf[1], UrlOf[2]}

InitFetch ==
    /\ ExtractIdle
    /\ AnalyzeIdle
    /\ LookupIdle
    /\ MainIdle
    /\ FetchIdle
    /\ ParserIdle
    /\ HelperIdle

\* fetch_csfd_results(query, limit)
FetchCsfdResults(query, limit, net, page) ==
    /\ Len(fetchLog) < MaxFetches
    /\ LET f == fetch_csfd_results(query, limit, net, page)
       IN  /\ fetchOut' = [fn |-> "results", target |-> query, net |-> net,
                           status |-> IF f.raised THEN "raised" ELSE "returned",
                           results |-> f.results,
                           requests |-> IF f.requested THEN 1 ELSE 0]
           /\ fetchLog' = IF f.requested
                          THEN Append(fetchLog, [fn |-> "results", target |-> query, page |-> 1])
                          ELSE fetchLog
    /\ UNCHANGED <<lookupVars, extractVars, analyzeVars, mainVars, parserVars, helperVars>>

\* fetch_csfd_show_detail(url), through its lru_cache; one request, for the url itself
FetchCsfdShowDetail(url, net) ==
    /\ Len(fetchLog) < MaxFetches
    /\ LET f == fetch_csfd_show_detail(cache, url, net)
       IN  /\ fetchOut' = [fn |-> "detail", target |-> url, net |-> net,
                           status |-> IF f.raised THEN "raised" ELSE "returned",
                           detail |-> f.detail,
                           requests |-> IF f.downloaded THEN 1 ELSE 0]
           /\ fetchLog' = IF f.downloaded
                          THEN Append(fetchLog, [fn |-> "detail", target |-> url, page |-> 1])
                          ELSE fetchLog
           /\ cache' = f.cache
    /\ UNCHANGED <<maxResults, lookup, extractVars, analyzeVars, mainVars, parserVars, helperVars>>

NextFetch ==
    \/ \E query \in FetchQueries : \E limit \in 1..2 : \E net \in FetchResponses :
           \E page \in FetchPages : FetchCsfdResults(query, limit, net, page)
    \/ \E url \in FetchUrls : \E net \in FetchResponses : \E pages \in SeasonPagings :
           FetchCsfdShowDetail(url, DetailResponse(net.kind, net.encoding, net.payload,
                                                   PagedHtml(pages)))

SpecFetch == InitFetch /\ [][NextFetch]_vars

(***************************************************************************)
(* One call of CSFDLookup.resolve or of fetch_csfd_results in a fresh      *)
(* process.                                                                *)
(***************************************************************************)
InitQuery == InitLookup

\* CSFDLookup(max_results).resolve(display_name)
QueryResolve ==
    /\ fetchOut = NoFetch
    /\ NextLookup

\* fetch_csfd_results(query, limit)
QueryFetch ==
    /\ lookup.status = "none"
    /\ fetchOut = NoFetch
    /\ \E query \in FetchQueries : \E limit \in 1..2 : \E net \in FetchResponses :
           \E page \in FetchPages : FetchCsfdResults(query, limit, net, page)

NextQuery == QueryResolve \/ QueryFetch

SpecQuery == InitQuery /\ [][NextQuery]_vars

(***************************************************************************)
(* fetch_csfd_show_detail called for many detail pages in one process.     *)
(***************************************************************************)
\* the url of the n-th detail page
DetailUrl(n) == "https://www.csfd.cz/film/" \o ToString(n)

\* a url becomes the most recently used one
Use(q, url) == SelectSeq(q, LAMBDA u : u # url) \o <<url>>

\* the number of other urls a result was returned for since one was returned for url
OthersSince(q, url) ==
    IF \E i \in 1..Len(q) : q[i] = url
    THEN Len(q) - (CHOOSE i \in 1..Len(q) : q[i] = url)
    ELSE Len(q)

InitCache ==
    /\ ExtractIdle
    /\ AnalyzeIdle
    /\ LookupIdle
    /\ MainIdle /\ FetchIdle /\ ParserIdle /\ HintIdle /\ RemapIdle /\ LibIdle /\ DetailIdle
    /\ used = <<>>

\* fetch_csfd_show_detail(url), net being what the transport does if it is asked
CachedFetch(url, net) ==
    /\ LET f == fetch_csfd_show_detail(cache, url, net)
       IN  /\ fetchOut' = [fn |-> "detail", target |-> url, net |-> net,
                           status |-> IF f.raised THEN "raised" ELSE "returned",
                           detail |-> f.detail,
                           requests |-> IF f.downloaded THEN 1 ELSE 0,
                           servedBefore |-> url \in SeqToSet(used),
                           othersSince |-> OthersSince(used, url)]
           /\ cache' = f.cache
           /\ used' = IF f.raised THEN used ELSE Use(used, url)
    /\ UNCHANGED <<fetchLog, maxResults, lookup, extractVars, analyzeVars, mainVars,
                   parserVars, hintVars, remapVars, libVars, detailVars>>

\* a detail page that was not asked for before is fetched
FetchNewUrl ==
    /\ Len(used) < MaxUrls
    /\ CachedFetch(DetailUrl(Len(used) + 1),
                   DetailResponse("ok", "identity", "good", DetailHtml(Type_Serial)))

\* the first detail page is asked for again; this time the read may time out
FetchFirstAgain ==
    /\ used # <<>>
    /\ \E kind \in {"ok", "raises"} :
           CachedFetch(DetailUrl(1),
                       DetailResponse(kind, "identity", "good", DetailHtml(Type_Serial)))

NextCache == FetchNewUrl \/ FetchFirstAgain

SpecCache == InitCache /\ [][NextCache]_vars

(***************************************************************************)
(* MovieSearchParser fed start-tag, end-tag and text events.               *)
(***************************************************************************)
\* YEAR_PATTERN.search(data): the first four digits that read 1880..2049, or None
\* a pattern that takes every year of the 21st century: 20[0-9][0-9] as third alternative
YearAt_whole_century(s, p) ==
    /\ p + 3 <= Len(s)
    /\ \/ s[p] = "1" /\ s[p + 1] = "8" /\ s[p + 2] \in {"8", "9"} /\ IsDigit(s[p + 3])
       \/ s[p] = "1" /\ s[p + 1] = "9" /\ IsDigit(s[p + 2]) /\ IsDigit(s[p + 3])
       \/ s[p] = "2" /\ s[p + 1] = "0" /\ IsDigit(s[p + 2]) /\ IsDigit(s[p + 3])

\* YEAR_PATTERN matched at position p: (18[8-9][0-9]|19[0-9]{2}|20[0-4][0-9])
YearAt(s, p) ==
    /\ p + 3 <= Len(s)
    /\ \/ s[p] = "1" /\ s[p + 1] = "8" /\ s[p + 2] \in {"8", "9"} /\ IsDigit(s[p + 3])
       \/ s[p] = "1" /\ s[p + 1] = "9" /\ IsDigit(s[p + 2]) /\ IsDigit(s[p + 3])
       \/ /\ s[p] = "2" /\ s[p + 1] = "0"
          /\ s[p + 2] \in {"0", "1", "2", "3", "4"} /\ IsDigit(s[p + 3])
YEAR_PATTERN_search(data) ==
    IF \E p \in 1..Len(data) : YearAt(data, p)
    THEN ToInt(data, CHOOSE p \in 1..Len(data) :
                         YearAt(data, p) /\ \A q \in 1..(p - 1) : ~YearAt(data, q), 4)
    ELSE None

\* urllib.parse.urljoin("https://www.csfd.cz", href) for the hrefs of the model
HrefOf == <<"/film/1-a/", "/film/2-b/", "/film/3-c/", "/film/4-d/", "/film/5-e/">>
urljoin(href) == UrlOf[CHOOSE i \in 1..Len(HrefOf) : HrefOf[i] = href]

\* a _current that is replaced or dropped while _year_target refers to it
Orphaned(target) == IF target.kind = "current" THEN Target("orphan", 0) ELSE target

\* handle_starttag(tag, attrs): class_set and href are what attrs give
handle_starttag(p, tag, class_set, href) ==
    IF tag = "a" /\ "film-title-name" \in class_set
    THEN IF Len(p.results) >= p.limit
         THEN [p EXCEPT !.has_current = FALSE, !.current = NoHit, !.capture_title = FALSE,
                        !.year_target = Orphaned(@)]
         ELSE [p EXCEPT !.has_current = TRUE,
                        !.current = [title |-> <<>>, year |-> None, url |-> urljoin(href)],
                        !.capture_title = TRUE,
                        !.year_target = Orphaned(@)]
    ELSE IF tag = "span" /\ "info" \in class_set
    THEN LET last == IF p.results # <<>> THEN Target("result", Len(p.results))
                     ELSE p.year_target
             target == IF p.has_current THEN Target("current", 0) ELSE last
         IN  [p EXCEPT !.year_target = target, !.capture_year = (target # NoTarget)]
    ELSE p

\* a bug the claims must exclude: a title anchor without text is stored as a hit
handle_endtag_keeps_blank(p, tag) ==
    IF tag = "a" /\ p.capture_title
    THEN [p EXCEPT !.capture_title = FALSE,
                   !.results = IF p.has_current /\ Len(p.results) < p.limit
                               THEN Append(@, [p.current EXCEPT !.title = Strip(@)])
                               ELSE @,
                   !.has_current = FALSE, !.current = NoHit, !.year_target = NoTarget]
    ELSE IF tag = "span" /\ p.capture_year
    THEN [p EXCEPT !.capture_year = FALSE, !.year_target = NoTarget]
    ELSE p

\* handle_endtag(tag)
handle_endtag(p, tag) ==
    IF tag = "a" /\ p.capture_title
    THEN LET keep == /\ p.has_current
                     /\ p.current.title # <<>>
                     /\ Strip(p.current.title) # <<>>
                     /\ Len(p.results) < p.limit
         IN  [p EXCEPT !.capture_title = FALSE,
                       !.results = IF keep
                                   THEN Append(@, [p.current EXCEPT !.title = Strip(@)])
                                   ELSE @,
                       !.has_current = FALSE, !.current = NoHit, !.year_target = NoTarget]
    ELSE IF tag = "span" /\ p.capture_year
    THEN [p EXCEPT !.capture_year = FALSE, !.year_target = NoTarget]
    ELSE p

\* the year of the dict _year_target refers to (an orphan never got one)
TargetYear(p) ==
    IF p.year_target.kind = "result" THEN p.results[p.year_target.index].year
    ELSE IF p.year_target.kind = "current" THEN p.current.year
    ELSE None

\* handle_data(data)
handle_data(p, data) ==
    IF p.capture_title /\ p.has_current
    THEN [p EXCEPT !.current.title = @ \o data]
    ELSE IF /\ p.capture_year
            /\ p.year_target # NoTarget
            /\ TargetYear(p) = None
            /\ YEAR_PATTERN_search(data) # None
    THEN LET year == YEAR_PATTERN_search(data)
             written == IF p.year_target.kind = "result"
                        THEN [p EXCEPT !.results[p.year_target.index].year = year]
                        ELSE IF p.year_target.kind = "current"
                        THEN [p EXCEPT !.current.year = year]
                        ELSE p
         IN  [written EXCEPT !.capture_year = FALSE, !.year_target = NoTarget]
    ELSE p

\* the limits the parser is made with, the tags and the texts of the pages fed to it
ParserLimits == {1, 2}
ParserTexts == { <<" ">>, <<"2", "0", "0", "5">> }
TitleAnchorsFed == Len(SelectSeq(fed, LAMBDA e : e.type = "start" /\ e.tag = "a"))

InitParser ==
    /\ ExtractIdle
    /\ AnalyzeIdle
    /\ LookupIdle
    /\ MainIdle
    /\ FetchIdle
    /\ HelperIdle
    /\ parser \in {MovieSearchParser(limit) : limit \in ParserLimits}
    /\ fed = <<>>

\* <a class="film-title-name" href=...>
FeedTitleAnchor ==
    /\ Len(fed) < MaxEvents
    /\ LET href == HrefOf[(TitleAnchorsFed % Len(HrefOf)) + 1]
       IN  /\ fed' = Append(fed, [type |-> "start", tag |-> "a", href |-> href, data |-> <<>>])
           /\ parser' = handle_starttag(parser, "a", {"film-title-name"}, href)
    /\ UNCHANGED <<extractVars, analyzeVars, lookupVars, mainVars, fetchVars, helperVars>>

\* <span class="info">
FeedInfoSpan ==
    /\ Len(fed) < MaxEvents
    /\ fed' = Append(fed, [type |-> "start", tag |-> "span", href |-> "", data |-> <<>>])
    /\ parser' = handle_starttag(parser, "span", {"info"}, "")
    /\ UNCHANGED <<extractVars, analyzeVars, lookupVars, mainVars, fetchVars, helperVars>>

\* </a> or </span>
FeedEndTag(tag) ==
    /\ Len(fed) < MaxEvents
    /\ fed' = Append(fed, [type |-> "end", tag |-> tag, href |-> "", data |-> <<>>])
    /\ parser' = handle_endtag(parser, tag)
    /\ UNCHANGED <<extractVars, analyzeVars, lookupVars, mainVars, fetchVars, helperVars>>

\* text
FeedData(data) ==
    /\ Len(fed) < MaxEvents
    /\ fed' = Append(fed, [type |-> "data", tag |-> "", href |-> "", data |-> data])
    /\ parser' = handle_data(parser, data)
    /\ UNCHANGED <<extractVars, analyzeVars, lookupVars, mainVars, fetchVars, helperVars>>

NextParser ==
    \/ FeedTitleAnchor
    \/ FeedInfoSpan
    \/ \E tag \in {"a", "span"} : FeedEndTag(tag)
    \/ \E data \in ParserTexts : FeedData(data)

SpecParser == InitParser /\ [][NextParser]_vars

(***************************************************************************)
(* MovieSearchParser given the text of the info span of a stored hit.      *)
(***************************************************************************)
\* <a class="film-title-name" href="/film/1-a/">Show</a><span class="info">
YearEvents ==
    << [type |-> "start", tag |-> "a", href |-> HrefOf[1], data |-> <<>>],
       [type |-> "data", tag |-> "", href |-> "", data |-> Title_Show],
       [type |-> "end", tag |-> "a", href |-> "", data |-> <<>>],
       [type |-> "start", tag |-> "span", href |-> "", data |-> <<>>] >>

\* every token of four digits
YearTokens == [1..4 -> SeqToSet(Digits)]

InitYears ==
    /\ ExtractIdle
    /\ AnalyzeIdle
    /\ LookupIdle
    /\ MainIdle
    /\ FetchIdle
    /\ HelperIdle
    /\ parser = handle_starttag(
                    handle_endtag(
                        handle_data(
                            handle_starttag(MovieSearchParser(1), "a", {"film-title-name"},
                                            HrefOf[1]),
                            Title_Show),
                        "a"),
                    "span", {"info"}, "")
    /\ fed = YearEvents

\* the text of the info span: a token of four digits in parentheses
FeedYearToken(token) ==
    /\ fed = YearEvents
    /\ FeedData(<<"(">> \o token \o <<")">>)

NextYears == \E token \in YearTokens : FeedYearToken(token)

SpecYears == InitYears /\ [][NextYears]_vars

(***************************************************************************)
(* CSFDShowDetailParser fed start-tag, end-tag and text events.            *)
(***************************************************************************)
\* str.strip(chars)
RECURSIVE LStripChars(_, _)
LStripChars(s, chars) ==
    IF s # <<>> /\ Head(s) \in chars THEN LStripChars(Tail(s), chars) ELSE s
RECURSIVE RStripChars(_, _)
RStripChars(s, chars) ==
    IF s # <<>> /\ s[Len(s)] \in chars
    THEN RStripChars(SubSeq(s, 1, Len(s) - 1), chars) ELSE s
StripChars(s, chars) == RStripChars(LStripChars(s, chars), chars)

\* raw.split("(", 1)[0]
RECURSIVE UpToParen(_)
UpToParen(s) ==
    IF s = <<>> \/ Head(s) = "(" THEN <<>> ELSE <<Head(s)>> \o UpToParen(Tail(s))

\* ORIGIN_SPLITTER.split(text): the pieces between the characters , and /
RECURSIVE SplitOrigins(_, _)
SplitOrigins(s, piece) ==
    IF s = <<>> THEN <<piece>>
    ELSE IF Head(s) \in {",", "/"} THEN <<piece>> \o SplitOrigins(Tail(s), <<>>)
    ELSE SplitOrigins(Tail(s), Append(piece, Head(s)))

\* the loop that keeps the first occurrence of each value
RECURSIVE Unique(_, _)
Unique(values, unique) ==
    IF values = <<>> THEN unique
    ELSE IF Head(values) \in SeqToSet(unique) THEN Unique(Tail(values), unique)
    ELSE Unique(Tail(values), Append(unique, Head(values)))

\* CSFDShowDetailParser._finalize_origins, parts being "".join(self._origin_parts)
_finalize_origins(parts) ==
    LET raw == Strip(parts)
        pieces == SplitOrigins(UpToParen(raw), <<>>)
        stripped == [k \in 1..Len(pieces) |-> StripChars(pieces[k], {" ", ","})]
        values == SelectSeq(stripped, LAMBDA v : v # <<>>)
    IN  IF raw = <<>> THEN <<>> ELSE Unique(values, <<>>)

NameSpanClasses == {"span-more-small", "normal", "info"}

\* CSFDShowDetailParser.handle_starttag(tag, attrs): class_set is what attrs give
DetailStartTag(p, tag, class_set) ==
    LET p1 == IF tag = "div" /\ "origin" \in class_set
              THEN [p EXCEPT !.in_origin = TRUE, !.origin_span_depth = 0,
                             !.origin_parts = <<>>]
              ELSE IF p.in_origin /\ tag = "span"
              THEN [p EXCEPT !.origin_span_depth = @ + 1]
              ELSE p
        p2 == IF tag = "ul" /\ "film-names" \in class_set
              THEN [p1 EXCEPT !.in_names_list = TRUE]
              ELSE IF tag = "li" /\ p1.in_names_list /\ p1.original_title = <<>>
              THEN IF "more-names" \in class_set THEN p1
                   ELSE [p1 EXCEPT !.capturing_name = TRUE, !.name_parts = <<>>]
              ELSE IF tag = "span" /\ p1.capturing_name
                      /\ class_set \cap NameSpanClasses # {}
              THEN [p1 EXCEPT !.name_suppressed = @ + 1]
              ELSE p1
    IN  IF tag = "span" /\ "type" \in class_set /\ p2.media_type = <<>>
        THEN [p2 EXCEPT !.capturing_type = TRUE]
        ELSE p2

\* CSFDShowDetailParser.handle_endtag(tag)
DetailEndTag(p, tag) ==
    LET p1 == IF tag = "div" /\ p.in_origin
              THEN [p EXCEPT !.in_origin = FALSE,
                             !.origins = _finalize_origins(p.origin_parts)]
              ELSE IF tag = "span" /\ p.in_origin /\ p.origin_span_depth > 0
              THEN [p EXCEPT !.origin_span_depth = @ - 1]
              ELSE p
        p2 == IF tag = "li" /\ p1.capturing_name
              THEN [p1 EXCEPT !.capturing_name = FALSE,
                              !.original_title = IF @ = <<>> THEN Strip(p1.name_parts)
                                                 ELSE @,
                              !.name_parts = <<>>]
              ELSE IF tag = "ul" /\ p1.in_names_list
              THEN [p1 EXCEPT !.in_names_list = FALSE]
              ELSE IF tag = "span" /\ p1.capturing_name /\ p1.name_suppressed > 0
              THEN [p1 EXCEPT !.name_suppressed = @ - 1]
              ELSE p1
    IN  IF tag = "span" /\ p2.capturing_type
        THEN [p2 EXCEPT !.capturing_type = FALSE]
        ELSE p2

\* CSFDShowDetailParser.handle_data(data)
DetailData(p, data) ==
    LET p1 == IF p.in_origin /\ p.origin_span_depth = 0
              THEN [p EXCEPT !.origin_parts = @ \o data] ELSE p
        p2 == IF p1.capturing_name /\ p1.name_suppressed = 0
              THEN [p1 EXCEPT !.name_parts = @ \o data] ELSE p1
    IN  IF p2.capturing_type
        THEN [p2 EXCEPT !.media_type = Strip(@ \o data)]
        ELSE p2

Text_USA == <<"U", "S", "A">>
Text_UK_USA == <<" ", "U", "K", " ", "/", " ", "U", "S", "A", ",", " ", "(", "2", "h", ")">>
DetailTexts == {Text_USA, Text_UK_USA}

InitDetailParser ==
    /\ ExtractIdle
    /\ AnalyzeIdle
    /\ LookupIdle
    /\ MainIdle /\ FetchIdle /\ ParserIdle /\ HintIdle /\ RemapIdle /\ LibIdle /\ UsedIdle
    /\ detailParser = CSFDShowDetailParser
    /\ detailFed = <<>>

\* <div class="origin">, <span> or <span class="type">
FeedDetailStart(tag, class_set) ==
    /\ Len(detailFed) < MaxEvents
    /\ detailFed' = Append(detailFed, [type |-> "start", tag |-> tag, class_set |-> class_set,
                                       data |-> <<>>])
    /\ detailParser' = DetailStartTag(detailParser, tag, class_set)
    /\ UNCHANGED <<extractVars, analyzeVars, lookupVars, mainVars, fetchVars, parserVars,
                   hintVars, remapVars, libVars, usedVars>>

\* </div> or </span>
FeedDetailEnd(tag) ==
    /\ Len(detailFed) < MaxEvents
    /\ detailFed' = Append(detailFed, [type |-> "end", tag |-> tag, class_set |-> {},
                                       data |-> <<>>])
    /\ detailParser' = DetailEndTag(detailParser, tag)
    /\ UNCHANGED <<extractVars, analyzeVars, lookupVars, mainVars, fetchVars, parserVars,
                   hintVars, remapVars, libVars, usedVars>>

\* text
FeedDetailData(data) ==
    /\ Len(detailFed) < MaxEvents
    /\ detailFed' = Append(detailFed, [type |-> "data", tag |-> "", class_set |-> {},
                                       data |-> data])
    /\ detailParser' = DetailData(detailParser, data)
    /\ UNCHANGED <<extractVars, analyzeVars, lookupVars, mainVars, fetchVars, parserVars,
                   hintVars, remapVars, libVars, usedVars>>

NextDetailParser ==
    \/ FeedDetailStart("div", {"origin"})
    \/ \E class_set \in {{}, {"type"}} : FeedDetailStart("span", class_set)
    \/ \E tag \in {"div", "span"} : FeedDetailEnd(tag)
    \/ \E data \in DetailTexts : FeedDetailData(data)

SpecDetailParser == InitDetailParser /\ [][NextDetailParser]_vars

(***************************************************************************)
(* extract_season_hint applied to the segments of a relative path.         *)
(***************************************************************************)
Seg_Specials == <<"S", "p", "e", "c", "i", "a", "l", "s">>
Seg_SPECIALS_padded == <<" ", "S", "P", "E", "C", "I", "A", "L", "S", " ">>
Seg_Specials2 == <<"S", "p", "e", "c", "i", "a", "l", "s", " ", "2">>
Seg_MySpecials == <<"M", "y", " ", "S", "p", "e", "c", "i", "a", "l", "s">>
Seg_Season03 == <<"S", "e", "a", "s", "o", "n", " ", "0", "3">>
Seg_series4 == <<"s", "e", "r", "i", "e", "s", "4">>
Seg_S1 == <<"S", "1">>
Seg_Extras == <<"E", "x", "t", "r", "a", "s">>
\* the directory names a file's relative path is made of
SegmentPool == {Seg_Specials, Seg_SPECIALS_padded, Seg_Specials2, Seg_MySpecials,
                Seg_Season03, Seg_series4, Seg_S1, Seg_Extras}

InitHint ==
    /\ hintParts \in UNION {[1..k -> SegmentPool] : k \in 0..MaxDepth}
    /\ hintOut = None
    /\ hintPc = "input"
    /\ ExtractIdle
    /\ AnalyzeIdle
    /\ LookupIdle
    /\ MainIdle /\ FetchIdle /\ ParserIdle /\ RemapIdle /\ LibIdle /\ UsedIdle /\ DetailIdle

\* extract_season_hint(rel_parts)
ExtractSeasonHint ==
    /\ hintPc = "input"
    /\ hintOut' = extract_season_hint(hintParts)
    /\ hintPc' = "done"
    /\ UNCHANGED <<hintParts, extractVars, analyzeVars, lookupVars, mainVars, fetchVars,
                   parserVars, remapVars, libVars, usedVars, detailVars>>

NextHint == ExtractSeasonHint

SpecHint == InitHint /\ [][NextHint]_vars

(***************************************************************************)
(* remap_path applied to a path and a directory mapping.                   *)
(***************************************************************************)
\* os.sep
Sep == "/"

\* str.startswith
StartsWith(s, w) == Len(w) <= Len(s) /\ SubSeq(s, 1, Len(w)) = w

\* sorted(mapping.keys(), key=len, reverse=True): the next key of the loop.  Keys of
\* the same length keep their dict order; at most one of them is a prefix of a path.
LongestKey(keys) == CHOOSE k \in keys : \A o \in keys : Len(o) <= Len(k)

\* the loop with the test path.startswith(old) in place of path.startswith(old + os.sep)
RECURSIVE RemapLoop_char_prefix(_, _, _)
RemapLoop_char_prefix(path, mapping, keys) ==
    IF keys = {} THEN path
    ELSE LET old == LongestKey(keys)
         IN  IF path = old \/ StartsWith(path, old)
             THEN mapping[old] \o SubSeq(path, Len(old) + 1, Len(path))
             ELSE RemapLoop_char_prefix(path, mapping, keys \ {old})

\* the loop of remap_path over the keys not tried yet
RECURSIVE RemapLoop(_, _, _)
RemapLoop(path, mapping, keys) ==
    IF keys = {} THEN path
    ELSE LET old == LongestKey(keys)
         IN  IF path = old \/ StartsWith(path, old \o <<Sep>>)
             THEN mapping[old] \o SubSeq(path, Len(old) + 1, Len(path))
             ELSE RemapLoop(path, mapping, keys \ {old})

\* remap_path(path, mapping); an empty mapping is the empty function
remap_path(path, mapping) == RemapLoop(path, mapping, DOMAIN mapping)

\* os.path.join of the components of an absolute path
RECURSIVE JoinPath(_)
JoinPath(comps) ==
    IF comps = <<>> THEN <<>> ELSE <<Sep>> \o Head(comps) \o JoinPath(Tail(comps))

\* directory and file names
Comp_a == <<"a">>
Comp_b == <<"b">>
Comp_bc == <<"b", "c">>
Comp_d == <<"d">>
Components == {Comp_a, Comp_b, Comp_bc}
\* absolute, normalised paths (os.path.abspath) as lists of components
ComponentLists(n) == UNION {[1..k -> Components] : k \in 1..n}
RemapPaths == {JoinPath(c) : c \in ComponentLists(MaxDepth)}
\* the keys and values of dir_mapping are directories: os.path.abspath(old_dir), (new_dir)
RemapKeys == {JoinPath(c) : c \in {<<Comp_a>>, <<Comp_b>>, <<Comp_a, Comp_b>>,
                                   <<Comp_a, Comp_bc>>, <<Comp_b, Comp_a>>,
                                   <<Comp_a, Comp_b, Comp_a>>}}
RemapValues == {JoinPath(<<Comp_d>>), JoinPath(<<Comp_a, Comp_bc>>)}
RemapMappings ==
    UNION {[K -> RemapValues] : K \in {K \in SUBSET RemapKeys : Cardinality(K) <= MaxKeys}}

InitRemap ==
    /\ remapPath \in RemapPaths
    /\ remapMapping \in RemapMappings
    /\ remapOut = <<>>
    /\ remapPc = "input"
    /\ ExtractIdle
    /\ AnalyzeIdle
    /\ LookupIdle
    /\ MainIdle /\ FetchIdle /\ ParserIdle /\ HintIdle /\ UsedIdle /\ DetailIdle /\ LibIdle

\* remap_path(path, mapping)
RemapPath ==
    /\ remapPc = "input"
    /\ remapOut' = remap_path(remapPath, remapMapping)
    /\ remapPc' = "done"
    /\ UNCHANGED <<remapPath, remapMapping, extractVars, analyzeVars, lookupVars, mainVars,
                   fetchVars, parserVars, hintVars, usedVars, detailVars, libVars>>

NextRemap == RemapPath

SpecRemap == InitRemap /\ [][NextRemap]_vars

(***************************************************************************)
(* process_library_path over a library directory.                          *)
(***************************************************************************)
\* INVALID_FILENAME_CHARS
InvalidFilenameChars == {"\\", "/", "<", ">", ":", "\"", "|", "?", "*"}

\* WHITESPACE.sub(" ", text): every run of white space becomes one space
RECURSIVE CollapseSpaces(_)
CollapseSpaces(s) ==
    IF s = <<>> THEN <<>>
    ELSE IF IsSpace(Head(s)) /\ Len(s) > 1 /\ IsSpace(s[2]) THEN CollapseSpaces(Tail(s))
    ELSE <<Head(s)>> \o CollapseSpaces(Tail(s))

\* sanitize_component(text)
sanitize_component(text) ==
    LET cleaned == [i \in 1..Len(text) |->
                        IF text[i] \in InvalidFilenameChars THEN " " ELSE text[i]]
    IN  StripChars(CollapseSpaces(cleaned), {" ", "."})

\* format_media_name(title, year); year is its digits, <<>> for None
format_media_name(title, year) ==
    LET base_title == Strip(CollapseSpaces(title))
    IN  sanitize_component(IF year # <<>> THEN base_title \o <<" ", "(">> \o year \o <<")">>
                           ELSE base_title)

\* os.path.dirname, os.path.basename and os.path.join of absolute paths
LastSep(path) == CHOOSE i \in 1..Len(path) :
                     path[i] = Sep /\ \A j \in (i + 1)..Len(path) : path[j] # Sep
dirname(path) == IF LastSep(path) = 1 THEN <<Sep>> ELSE SubSeq(path, 1, LastSep(path) - 1)
basename(path) == SubSeq(path, LastSep(path) + 1, Len(path))
join(a, b) == a \o <<Sep>> \o b

\* os.path.exists(path) on the disk d: a file, or a directory that holds files
exists(d, path) ==
    \E i \in 1..Len(d) : d[i] = path \/ StartsWith(d[i], path \o <<Sep>>)

\* os.rename(old, new) of a file or of a directory with all it holds
rename(d, old, new) ==
    [i \in 1..Len(d) |->
         IF d[i] = old \/ StartsWith(d[i], old \o <<Sep>>)
         THEN new \o SubSeq(d[i], Len(old) + 1, Len(d[i])) ELSE d[i]]

\* guess_search_query(file_path).  On the names of this model (letters and an
\* extension) derive_search_query leaves the name without its extension.
guess_search_query(file_path) ==
    LET filename == basename(file_path)
        query == SubSeq(filename, 1, Len(filename) - Len(splitext_ext(filename)))
    IN  IF query # <<>> THEN query ELSE basename(dirname(file_path))

\* rename_media_paths(file_path, base_name, root_path) on the disk d.  dir_change is
\* <<>> for None.  The directory that becomes empty is removed with its last file.
rename_media_paths(d, file_path, base_name, root_path) ==
    LET original_dir == dirname(file_path)
        filename == basename(file_path)
        ext == splitext_ext(filename)
        target_dir_parent == IF original_dir = root_path THEN original_dir
                             ELSE dirname(original_dir)
        target_dir == join(target_dir_parent, base_name)
        renamed_directory == /\ original_dir # target_dir
                             /\ original_dir # root_path
                             /\ ~exists(d, target_dir)
        d1 == IF renamed_directory THEN rename(d, original_dir, target_dir) ELSE d
        current1 == IF renamed_directory THEN join(target_dir, filename) ELSE file_path
        target_path == join(target_dir, sanitize_component(base_name \o ext))
        moved == target_path # current1 /\ ~exists(d1, target_path)
    IN  [disk |-> IF moved THEN rename(d1, current1, target_path) ELSE d1,
         current_path |-> IF moved THEN target_path ELSE current1,
         dir_change |-> IF renamed_directory THEN <<original_dir, target_dir>> ELSE <<>>,
         changed |-> moved \/ renamed_directory]

\* what interactive_select_title ends with: UserAbort, None, or a selection
Selection(action, title, year) == [action |-> action, title |-> title, year |-> year]

\* process_media_file(file_path, root_path, args) on the disk d; answer is what
\* interactive_select_title ends with if it is called
process_media_file(d, file_path, root_path, answer) ==
    LET skipped == [outcome |-> "skipped", new_file_path |-> file_path, dir_change |-> <<>>,
                    disk |-> d, missing |-> FALSE, asked |-> FALSE, raised |-> FALSE]
        base_name == format_media_name(answer.title, answer.year)
        r == rename_media_paths(d, file_path, base_name, root_path)
    IN  IF ~exists(d, file_path) THEN [skipped EXCEPT !.missing = TRUE]
        ELSE IF guess_search_query(file_path) = <<>> THEN skipped
        ELSE IF answer.action = "abort"
        THEN [skipped EXCEPT !.outcome = "none", !.asked = TRUE, !.raised = TRUE]
        ELSE IF answer.action = "skip" THEN [skipped EXCEPT !.asked = TRUE]
        ELSE IF base_name = <<>> THEN [skipped EXCEPT !.asked = TRUE]
        ELSE [outcome |-> IF r.changed THEN "renamed" ELSE "unchanged",
              new_file_path |-> r.current_path, dir_change |-> r.dir_change,
              disk |-> r.disk, missing |-> FALSE, asked |-> TRUE, raised |-> FALSE]

\* dir_mapping[old] = new
MapPut(mapping, old, new) ==
    [k \in (DOMAIN mapping) \cup {old} |-> IF k = old THEN new ELSE mapping[k]]

\* the library: root_path and, under it, directories holding video files
LibRoot == JoinPath(<<<<"r">>>>)
LibDirs == << <<"X">>, <<"Y">>, <<"Z">> >>
LibFileName(i) == <<LowerCase[i]>> \o Ext_ts
\* iter_video_files(root_path): directories in sorted order, the files of each sorted
Layouts(n) ==
    {[i \in 1..n |-> JoinPath(<<<<"r">>, LibDirs[f[i]], LibFileName(i)>>)] :
         f \in {g \in [1..n -> 1..Len(LibDirs)] : \A i, j \in 1..n : i < j => g[i] <= g[j]}}
LibraryLayouts == UNION {Layouts(n) : n \in 0..MaxLibFiles}
LibTitles == { <<"X">>, <<"Y", ".">>, <<"Z">> }
LibAnswers ==
    {Selection("abort", <<>>, <<>>), Selection("skip", <<>>, <<>>)}
    \cup {Selection("accept", t, <<>>) : t \in LibTitles}

InitLibrary ==
    /\ disk \in LibraryLayouts
    /\ libFiles = disk
    /\ dir_mapping = <<>>
    /\ libLog = <<>>
    /\ libPc = IF libFiles = <<>> THEN "nothing" ELSE "loop"
    /\ ExtractIdle
    /\ AnalyzeIdle
    /\ LookupIdle
    /\ MainIdle /\ FetchIdle /\ ParserIdle /\ HintIdle /\ RemapIdle /\ UsedIdle /\ DetailIdle

\* one iteration of the loop of process_library_path (lines 1079-1097), and the
\* handler of UserAbort (1098-1100)
LibraryIteration(answer) ==
    /\ libPc = "loop"
    /\ LET idx == Len(libLog) + 1
           mapped_path == remap_path(libFiles[idx], dir_mapping)
       IN  /\ libLog' = Append(libLog,
                               [mapped_path |-> mapped_path, location |-> disk[idx],
                                answer |-> answer,
                                call |-> process_media_file(disk, mapped_path, LibRoot,
                                                            answer)])
           /\ LET p == libLog'[idx].call
              IN  IF p.raised
                  THEN /\ libPc' = "aborted"
                       /\ UNCHANGED <<disk, libFiles, dir_mapping>>
                  ELSE /\ disk' = p.disk
                       /\ dir_mapping' = IF p.dir_change # <<>>
                                         THEN MapPut(dir_mapping, p.dir_change[1],
                                                     p.dir_change[2])
                                         ELSE dir_mapping
                       /\ libFiles' = [j \in 1..Len(libFiles) |->
                                        IF j = idx THEN p.new_file_path
                                        ELSE IF j > idx /\ p.dir_change # <<>>
                                        THEN remap_path(libFiles[j], dir_mapping')
                                        ELSE libFiles[j]]
                       /\ libPc' = IF idx = Len(libFiles) THEN "done" ELSE "loop"
    /\ UNCHANGED <<extractVars, analyzeVars, lookupVars, mainVars, fetchVars, parserVars,
                   hintVars, remapVars, usedVars, detailVars>>

NextLibrary == \E answer \in LibAnswers : LibraryIteration(answer)

SpecLibrary == InitLibrary /\ [][NextLibrary]_vars

(***************************************************************************)
(* Properties of analyze_show.                                             *)
(***************************************************************************)
\* the reports analyze_show has returned so far
Reports == {r \in {report, reportMeta} : r # NoReport}

SetMax(S) == IF S = {} THEN 0 ELSE CHOOSE x \in S : \A y \in S : y <= x
StrictlyIncreasing(q) == \A i, j \in 1..Len(q) : i < j => q[i] < q[j]
Present(r, s) == IF s \in DOMAIN r.seasons THEN SeqToSet(r.seasons[s].episodes_present) ELSE {}
\* what the name and the path of each file say, computed once per file
IsVideoTable == [f \in FileChoices |-> is_video_file(f.file_name)]
MatchTable == [f \in FileChoices |-> SeqToSet(extract_episode_matches(f.file_name))]
HintTable == [f \in FileChoices |-> extract_season_hint(f.rel_parts)]
VideoFiles == {f \in SeqToSet(tree) : IsVideoTable[f]}
MatchesOf(f) == MatchTable[f]
HintOf(f) == HintTable[f]
\* the match m of file f belongs to season s: by its own season, else by the hint of the path
Attributed(f, m, s) == m[1] = s \/ (m[1] = None /\ HintOf(f) = s)

\* C1: in every report of analyze_show, each season's missing_episodes is exactly
\* {1..max(episodes_present)} minus episodes_present, in increasing order, and it is
\* empty when episodes_present is empty or is contiguous from 1.
C1_MissingEpisodes ==
    \A r \in Reports : \A s \in DOMAIN r.seasons :
        LET present == SeqToSet(r.seasons[s].episodes_present)
            missing == r.seasons[s].missing_episodes
        IN  /\ SeqToSet(missing) = (1..SetMax(present)) \ present
            /\ StrictlyIncreasing(missing)
            /\ (present = {} \/ present = 1..Cardinality(present)) => missing = <<>>

\* a report with a season that has a gap below its first episode present and a gap inside
C1_Witness ==
    /\ report # NoReport
    /\ \E s \in DOMAIN report.seasons :
           /\ report.seasons[s].missing_episodes # <<>>
           /\ 1 \notin Present(report, s)

\* C2: in every report of analyze_show, each season's episodes_present is strictly
\* increasing (sorted, no duplicates) and holds no value <= 0, whatever the order of
\* the files and however many files map to the same episode.
C2_EpisodesPresentNormalized ==
    \A r \in Reports : \A s \in DOMAIN r.seasons :
        /\ StrictlyIncreasing(r.seasons[s].episodes_present)
        /\ \A e \in Present(r, s) : e > 0

\* a report for which the scan collected more episode numbers for a season (a duplicate,
\* an episode 0) than the report lists
C2_Witness ==
    /\ report # NoReport
    /\ \E s \in DOMAIN report.seasons :
           /\ report.seasons[s].episodes_present # <<>>
           /\ Len(WalkFiles(EmptyDict, tree)[s].episodes_present)
                  > Len(report.seasons[s].episodes_present)

\* C3: missing_seasons is [1..maxSeason] minus the seasons that have a record, maxSeason
\* being the largest positive season seen; a season whose folder holds only video files
\* without episode markers counts as present; season 0 is never listed and never sets
\* maxSeason; without a positive season missing_seasons is empty.
C3_MissingSeasons ==
    \A r \in Reports :
        LET positive == {s \in DOMAIN r.seasons : s > 0}
        IN  /\ SeqToSet(r.missing_seasons) = (1..SetMax(positive)) \ DOMAIN r.seasons
            /\ StrictlyIncreasing(r.missing_seasons)
            /\ positive = {} => r.missing_seasons = <<>>
            /\ \A f \in VideoFiles :
                   (MatchesOf(f) = {} /\ HintOf(f) # None) =>
                       /\ HintOf(f) \in DOMAIN r.seasons
                       /\ HintOf(f) \notin SeqToSet(r.missing_seasons)

\* a report whose only positive season is an empty record made from the season hint,
\* with the seasons below it missing
C3_Witness ==
    /\ report # NoReport
    /\ report.missing_seasons # <<>>
    /\ \E s \in DOMAIN report.seasons :
           s > 0 /\ report.seasons[s].episodes_present = <<>>
    /\ \A s \in DOMAIN report.seasons :
           s > 0 => report.seasons[s].episodes_present = <<>>

\* C4: when the candidate's remote listing gives a season more episodes than the largest
\* episode observed locally, the report made with that candidate has a record for the
\* season whose missing_episodes is [1..count] minus the observed episodes.
C4_RemoteEpisodeCounts ==
    reportMeta # NoReport =>
        \A s \in DOMAIN remote.season_episode_counts :
            LET count == remote.season_episode_counts[s]
                observed == Present(reportMeta, s)
            IN  count > SetMax(observed) =>
                    /\ s \in DOMAIN reportMeta.seasons
                    /\ SeqToSet(reportMeta.seasons[s].missing_episodes)
                           = (1..count) \ observed

\* C5: when the candidate's remote total_seasons exceeds the largest positive season seen
\* locally, the report made with that candidate lists missing_seasons over
\* [1..total_seasons].
C5_RemoteTotalSeasons ==
    reportMeta # NoReport =>
        LET positive == {s \in DOMAIN reportMeta.seasons : s > 0}
        IN  (remote.total_seasons # None /\ remote.total_seasons > SetMax(positive)) =>
                SeqToSet(reportMeta.missing_seasons)
                    = (1..remote.total_seasons) \ DOMAIN reportMeta.seasons

\* the remote listing says no more than what was observed locally
RemoteNotLarger ==
    /\ \A s \in DOMAIN remote.season_episode_counts :
           remote.season_episode_counts[s] <= SetMax(Present(report, s))
    /\ remote.total_seasons # None =>
           remote.total_seasons <= SetMax({s \in DOMAIN report.seasons : s > 0})

\* C6: for the same files, the report made with a candidate has the episodes_present of
\* the report made without it, and its missing_episodes and missing_seasons contain those
\* of the local report; when the remote listing is not larger than what was observed
\* locally they are identical.
C6_Monotonic ==
    (report # NoReport /\ reportMeta # NoReport) =>
        /\ DOMAIN report.seasons \subseteq DOMAIN reportMeta.seasons
        /\ \A s \in DOMAIN report.seasons :
               /\ reportMeta.seasons[s].episodes_present = report.seasons[s].episodes_present
               /\ SeqToSet(report.seasons[s].missing_episodes)
                      \subseteq SeqToSet(reportMeta.seasons[s].missing_episodes)
        /\ SeqToSet(report.missing_seasons) \subseteq SeqToSet(reportMeta.missing_seasons)
        /\ RemoteNotLarger =>
               /\ reportMeta.seasons = report.seasons
               /\ reportMeta.missing_seasons = report.missing_seasons

\* both reports exist, the local one has gaps, and the remote listing is not larger
C6_Witness ==
    /\ report # NoReport /\ reportMeta # NoReport
    /\ reportMeta.csfd = Candidate
    /\ remote.season_episode_counts # NoRemote.season_episode_counts
    /\ RemoteNotLarger
    /\ \E s \in DOMAIN report.seasons : report.seasons[s].missing_episodes # <<>>

\* C8: a match that carries its own season is recorded under that season, whatever the
\* hint of the enclosing directory; the hint's season receives an episode number only
\* from a match of that season or from a match without a season in a directory with
\* that hint.
C8_OwnSeasonWins ==
    \A r \in Reports : \A f \in VideoFiles : \A m \in MatchesOf(f) :
        m[1] # None =>
            /\ m[1] \in DOMAIN r.seasons
            /\ m[2] > 0 => m[2] \in Present(r, m[1])
            /\ (HintOf(f) # m[1] /\ m[2] \in Present(r, HintOf(f))) =>
                   \E g \in VideoFiles : \E n \in MatchesOf(g) :
                       n[2] = m[2] /\ Attributed(g, n, HintOf(f))

\* a file named for season 2 inside the folder of season 1: its episode is under season
\* 2, and season 1 has no record at all
C8_Witness ==
    /\ report # NoReport
    /\ \E f \in VideoFiles : \E m \in MatchesOf(f) :
           /\ m[1] # None /\ HintOf(f) # None /\ HintOf(f) # m[1]
           /\ m[2] \in Present(report, m[1])
           /\ HintOf(f) \notin DOMAIN report.seasons

\* C9: a match without a season in a file whose path gives no hint is discarded: the
\* season records are exactly those some video file accounts for (by a match attributed
\* to the season, or by a hint when the name has no marker), and every episode listed
\* comes from a match attributed to its season; nothing is filed under a guessed season.
C9_UnattributableDiscarded ==
    \A r \in Reports :
        /\ DOMAIN r.seasons =
               {HintOf(f) : f \in {g \in VideoFiles : MatchesOf(g) = {} /\ HintOf(g) # None}}
               \cup UNION { {IF m[1] # None THEN m[1] ELSE HintOf(f) : m \in MatchesOf(f)}
                            \ {None} : f \in VideoFiles }
        /\ \A s \in DOMAIN r.seasons : \A e \in Present(r, s) :
               \E f \in VideoFiles : \E m \in MatchesOf(f) : m[2] = e /\ Attributed(f, m, s)

\* a bare E<m> file outside any season folder was scanned, next to a file that did make
\* a season record, and its episode number is in no season
C9_Witness ==
    /\ report # NoReport
    /\ report.seasons # EmptyDict
    /\ \E f \in VideoFiles : \E m \in MatchesOf(f) :
           /\ m[1] = None /\ HintOf(f) = None
           /\ \A s \in DOMAIN report.seasons : m[2] \notin Present(report, s)

(***************************************************************************)
(* Properties of extract_episode_matches.                                  *)
(***************************************************************************)
\* the text has an occurrence of S<1-2 digits>[separators]E<1-3 digits>
OccursSxxEyy(nm) ==
    \E p \in 1..Len(nm) : \E d1 \in 1..2 : \E k \in 0..Len(nm) :
        LET e == p + d1 + k + 1
        IN  /\ e + 1 <= Len(nm)
            /\ Lower(nm[p]) = "s"
            /\ \A i \in (p + 1)..(p + d1) : IsDigit(nm[i])
            /\ \A i \in (p + d1 + 1)..(e - 1) : IsSep(nm[i])
            /\ Lower(nm[e]) = "e"
            /\ IsDigit(nm[e + 1])

\* the text has an occurrence of <1-2 digits>x<1-3 digits>
OccursNxM(nm) ==
    \E p \in 1..Len(nm) :
        /\ p + 2 <= Len(nm)
        /\ IsDigit(nm[p]) /\ Lower(nm[p + 1]) = "x" /\ IsDigit(nm[p + 2])

\* C7 as stated: the patterns apply in strict priority, so a name with an S<n>E<m> pair
\* yields only the S<n>E<m> matches, and bare E<m> matches come only when neither of
\* the first two patterns matched.
C7_StrictPriority ==
    exPc = "done" =>
        /\ OccursSxxEyy(name) => matches = FindAll("SxxEyy", name, 1)
        /\ (\E i \in 1..Len(matches) : matches[i][1] = None) =>
               ~OccursSxxEyy(name) /\ ~OccursNxM(name)

\* C7 amended: the S<n>E<m> matches and the NxM matches are both reported, the former
\* first; bare E<m> matches (without season) are reported only when neither pattern
\* matched anything.
C7_BothPatternsThenBare ==
    exPc = "done" =>
        IF OccursSxxEyy(name) \/ OccursNxM(name)
        THEN /\ matches = FindAll("SxxEyy", name, 1) \o FindAll("NxM", name, 1)
             /\ \A i \in 1..Len(matches) : matches[i][1] # None
        ELSE /\ matches = FindAll("Eyy", name, 1)
             /\ \A i \in 1..Len(matches) : matches[i][1] = None

\* a name with both an S<n>E<m> pair and an NxM pair was processed and gave both
C7_Witness ==
    /\ exPc = "done"
    /\ OccursSxxEyy(name) /\ OccursNxM(name)
    /\ Len(matches) > Len(FindAll("SxxEyy", name, 1))

(***************************************************************************)
(* Properties of CSFDLookup.resolve.                                       *)
(***************************************************************************)
\* the hits of the page of the last lookup that have a title, at most 3 * max_results
FetchedHits == Take(SelectSeq(lookup.page, LAMBDA h : Strip(h.title) # <<>>), 3 * maxResults)
\* those of them that are not the placeholder entry
RemainingHits == SelectSeq(FetchedHits, LAMBDA h : LowerStr(Strip(h.title)) # Word_filmy)
UrlsOf(q) == [i \in 1..Len(q) |-> q[i].url]
\* what the detail page of a hit said, as the cache remembers it
HasDetail(h) == CacheHas(cache, h.url) /\ ~CacheGet(cache, h.url).empty
IsSeriesHit(h) == HasDetail(h) /\ InStr(Word_seri, LowerStr(CacheGet(cache, h.url).media_type))
IsUntypedHit(h) == HasDetail(h) /\ CacheGet(cache, h.url).media_type = <<>>
IsFilmHit(h) == HasDetail(h) /\ ~IsSeriesHit(h) /\ ~IsUntypedHit(h)
IsPrefix(p, q) == Len(p) <= Len(q) /\ SubSeq(q, 1, Len(p)) = p

\* C10: resolve asks the search for 3 * max_results raw hits, asks for the detail page
\* of every remaining hit in result order (no cutoff by type or count), and truncates to
\* max_results only after the media-type filter; so a series-typed hit that has only
\* film-typed hits before it is the first candidate, and with max_results = 1 it is the
\* result.  (A lookup that ends with an error has asked for a prefix of the detail pages.)
C10_FilterBeforeTruncate ==
    lookup.status # "none" =>
        /\ lookup.results = FetchedHits
        /\ IsPrefix(lookup.detailCalls, UrlsOf(RemainingHits))
        /\ lookup.status = "returned" =>
               /\ lookup.detailCalls = UrlsOf(RemainingHits)
               /\ UrlsOf(lookup.candidates) =
                      Take(UrlsOf(SelectSeq(RemainingHits,
                                            LAMBDA h : IsSeriesHit(h) \/ IsUntypedHit(h))),
                           maxResults)
               /\ \A k \in 1..Len(RemainingHits) :
                      (IsSeriesHit(RemainingHits[k])
                           /\ \A j \in 1..(k - 1) : IsFilmHit(RemainingHits[j])) =>
                          /\ lookup.candidates # <<>>
                          /\ lookup.candidates[1].url = RemainingHits[k].url
                          /\ maxResults = 1 => lookup.result.url = RemainingHits[k].url

\* max_results = 1, a page of four hits of which three are fetched: two films, then a
\* series, which is the result after three detail fetches
C10_Witness ==
    /\ maxResults = 1
    /\ lookup.status = "returned"
    /\ Len(lookup.page) = 4
    /\ Len(lookup.detailCalls) = 3
    /\ IsFilmHit(lookup.page[1]) /\ IsFilmHit(lookup.page[2]) /\ IsSeriesHit(lookup.page[3])
    /\ lookup.chooserCalls = 0
    /\ lookup.result.url = lookup.page[3].url

\* the hit is one of the candidates of the last lookup
IsCandidate(h) == \E i \in 1..Len(lookup.candidates) : lookup.candidates[i].url = h.url
\* the hit has no title or is the placeholder entry
IsPlaceholderHit(h) == Strip(h.title) = <<>> \/ LowerStr(Strip(h.title)) = Word_filmy

\* C11: a search hit whose title is empty or is, whatever the case, the placeholder
\* label Filmy is never a candidate nor the result, and its detail page is never asked
\* for (no call, no download, no cache entry).
C11_PlaceholderNeverFetched ==
    lookup.status # "none" =>
        \A i \in 1..Len(lookup.page) :
            LET h == lookup.page[i]
            IN  IsPlaceholderHit(h) =>
                    /\ ~IsCandidate(h)
                    /\ lookup.result.url # h.url
                    /\ h.url \notin SeqToSet(lookup.detailCalls)
                    /\ h.url \notin SeqToSet(lookup.downloads)
                    /\ ~CacheHas(cache, h.url)

\* a page that starts with the placeholder entry and holds a hit without a title, resolved
\* to the series listed after them
C11_Witness ==
    /\ lookup.status = "returned"
    /\ Len(lookup.page) >= 3
    /\ LowerStr(Strip(lookup.page[1].title)) = Word_filmy
    /\ \E i \in 1..Len(lookup.page) : Strip(lookup.page[i].title) = <<>>
    /\ lookup.result # NoCandidate
    /\ lookup.detailCalls # <<>>

C13_UntypedSkipped ==
    lookup.status = "returned" =>
        /\ \A k \in 1..Len(RemainingHits) :
               IsUntypedHit(RemainingHits[k]) => ~IsCandidate(RemainingHits[k])
        /\ (/\ Len(RemainingHits) = 2
            /\ IsUntypedHit(RemainingHits[1])
            /\ IsSeriesHit(RemainingHits[2])) =>
               /\ Len(lookup.candidates) = 1
               /\ lookup.chooserCalls = 0
               /\ lookup.result.url = RemainingHits[2].url

\* C14: the chooser is asked if and only if, after the filter and the truncation, there
\* are at least 2 (and at most max_results) candidates; it is given these candidates and
\* resolve returns what it returned.  A single candidate is returned without asking; with
\* no candidate resolve returns None, without raising.
C14_ChooserOnlyForSeveral ==
    /\ lookup.status = "raised" => lookup.chooserCalls = 0
    /\ lookup.status = "returned" =>
           /\ lookup.chooserCalls = (IF Len(lookup.candidates) >= 2 THEN 1 ELSE 0)
           /\ Len(lookup.candidates) <= maxResults
           /\ lookup.chooserCalls = 1 =>
                  /\ lookup.chooserArgs = lookup.candidates
                  /\ lookup.result = lookup.chooserReturn
           /\ Len(lookup.candidates) = 1 => lookup.result = lookup.candidates[1]
           /\ Len(lookup.candidates) = 0 => lookup.result = NoCandidate

\* two candidates of which the chooser picked the second
C14_Witness ==
    /\ lookup.status = "returned"
    /\ lookup.chooserCalls = 1
    /\ Len(lookup.candidates) = 2
    /\ lookup.result = lookup.candidates[2]

(***************************************************************************)
(* Properties of main.                                                     *)
(***************************************************************************)
\* the chooser was asked about show i and returned no selection
SkippedSelection(i) == lookups[i].chooserCalls = 1 /\ lookups[i].chooserReturn = NoCandidate
\* the report of show i is the one analyze_show gives from the files alone
LocalOnlyReport(i) ==
    /\ reports[i].name = shows[i].name
    /\ reports[i].csfd = NoCandidate
    /\ reports[i].seasons = analyze_show(shows[i].name, shows[i].tree, NoCandidate).seasons
    /\ reports[i].missing_seasons
           = analyze_show(shows[i].name, shows[i].tree, NoCandidate).missing_seasons
\* every show has its report, in discovery order
AllReported ==
    /\ Len(reports) = Len(shows)
    /\ \A j \in 1..Len(shows) : reports[j].name = shows[j].name

\* C15: when the chooser returns no selection for a show with several candidates, that
\* show is reported without remote metadata and with its local seasons and gaps, and
\* every other show of the run is resolved, analyzed and reported, in discovery order,
\* one report per show.
C15_SkippedSelectionOnlyThatShow ==
    \A i \in 1..Len(lookups) :
        SkippedSelection(i) =>
            /\ i <= Len(reports)
            /\ LocalOnlyReport(i)
            /\ mainPc # "loop" => AllReported

\* C16: a timeout or a transport failure of the search fetch or of a detail fetch is
\* never fatal: no exception leaves resolve, a failed search gives no candidates, a
\* failed detail fetch drops only that hit, and the show is analyzed and reported.
C16_FetchFailureNotFatal ==
    /\ mainPc # "aborted"
    /\ Len(reports) = Len(lookups)
    /\ \A i \in 1..Len(lookups) :
           /\ lookups[i].status # "raised"
           /\ (lookups[i].searched /\ lookups[i].results = <<>>) =>
                  (lookups[i].candidates = <<>> /\ reports[i].csfd = NoCandidate)
           /\ Len(lookups[i].candidates) + 1 >= Len(lookups[i].detailCalls)

(***************************************************************************)
(* Properties of fetch_csfd_results and fetch_csfd_show_detail.            *)
(***************************************************************************)
\* the last call sent a request and was answered
Answered == fetchOut.fn # "none" /\ fetchOut.requests > 0 /\ fetchOut.net.kind = "ok"

\* C17: a gzip or deflate payload that does not decompress is never an error of
\* fetch_csfd_results or fetch_csfd_show_detail: the call returns, with no results or
\* with the detail that the raw bytes give.
C17_DecompressionFailureNotFatal ==
    (/\ Answered
     /\ fetchOut.net.encoding \in Compressed
     /\ fetchOut.net.payload # "good") =>
        /\ fetchOut.status = "returned"
        /\ fetchOut.fn = "results" => fetchOut.results = <<>>
        /\ fetchOut.fn = "detail" =>
               fetchOut.detail \in {EmptyDetail, parse_csfd_show_detail(GarbageHtml)}

\* the last call was a detail fetch that downloaded and decoded the page of a series
PagedDetailFetched ==
    /\ Answered
    /\ fetchOut.fn = "detail"
    /\ fetchOut.status = "returned"
    /\ fetchOut.net.payload = "good"
\* the mapping that has, for each season some page lists, the count the pages give
CountsOf(pages) ==
    [s \in UNION {DOMAIN pages[i] : i \in 1..Len(pages)} |->
        pages[CHOOSE i \in 1..Len(pages) :
                  /\ s \in DOMAIN pages[i]
                  /\ \A j \in (i + 1)..Len(pages) : s \notin DOMAIN pages[j]][s]]

\* C18: when the season list of a series spans more than one page,
\* fetch_csfd_show_detail sends one request per page, each with its page index, and
\* returns the season -> episode count mapping merged over all the pages.
C18_PaginatedSeasonsFetched ==
    (PagedDetailFetched /\ Len(fetchOut.net.html.season_pages) > 1) =>
        LET pages == fetchOut.net.html.season_pages
        IN  /\ fetchOut.requests = Len(pages)
            /\ \A i \in 1..Len(pages) :
                   fetchLog[Len(fetchLog) - Len(pages) + i]
                       = [fn |-> "detail", target |-> fetchOut.target, page |-> i]
            /\ "season_episode_counts" \in DOMAIN fetchOut.detail
            /\ fetchOut.detail.season_episode_counts = CountsOf(pages)

\* C19: the mapping a detail fetch returns is the same in whatever order the season
\* pages are merged and however often a page is merged: it is the mapping of the set of
\* pages.
C19_MergeOrderIndependent ==
    PagedDetailFetched =>
        LET pages == fetchOut.net.html.season_pages
            canonical == Sorted({i \in 1..Len(pages) :
                                     \A j \in 1..(i - 1) : pages[j] # pages[i]})
        IN  /\ "season_episode_counts" \in DOMAIN fetchOut.detail
            /\ fetchOut.detail.season_episode_counts
                   = CountsOf([k \in 1..Len(canonical) |-> pages[canonical[k]]])
            /\ \A q \in SeasonPagings :
                   SeqToSet(q) = SeqToSet(pages) =>
                       fetchOut.detail.season_episode_counts = CountsOf(q)

(***************************************************************************)
(* Properties of MovieSearchParser.                                        *)
(***************************************************************************)
\* The title anchors of the events fed, in page order, each with the text between its
\* start tag and the next </a> (or the next title anchor): open is the anchor being read.
RECURSIVE AnchorsOf(_, _, _, _)
AnchorsOf(events, i, open, text) ==
    IF i > Len(events)
    THEN <<>>
    ELSE LET e == events[i]
         IN  IF e.type = "start" /\ e.tag = "a"
             THEN AnchorsOf(events, i + 1, e.href, <<>>)
             ELSE IF e.type = "end" /\ e.tag = "a" /\ open # ""
             THEN <<[href |-> open, text |-> text]>> \o AnchorsOf(events, i + 1, "", <<>>)
             ELSE IF e.type = "data" /\ open # ""
             THEN AnchorsOf(events, i + 1, open, text \o e.data)
             ELSE AnchorsOf(events, i + 1, open, text)
\* the hits of the page: the anchors with a title, as (title, url)
HitsOf(events) ==
    LET titled == SelectSeq(AnchorsOf(events, 1, "", <<>>), LAMBDA a : Strip(a.text) # <<>>)
    IN  [k \in 1..Len(titled) |-> [title |-> Strip(titled[k].text),
                                   url |-> urljoin(titled[k].href)]]
TitleAndUrl(results) ==
    [k \in 1..Len(results) |-> [title |-> results[k].title, url |-> results[k].url]]

\* C20: after any events fed to MovieSearchParser(limit), results holds at most limit
\* hits, and they are the first hits with a non-empty title in page order (so that, once
\* limit hits are stored, later title anchors add no hit and change no title or url).
C20_ResultsAreFirstHits ==
    parser.limit > 0 =>
        /\ Len(parser.results) <= parser.limit
        /\ TitleAndUrl(parser.results) = Take(HitsOf(fed), parser.limit)

\* the parser holds limit hits while the page had another anchor with a title after them
C20_Witness ==
    /\ parser.limit > 0
    /\ Len(parser.results) = parser.limit
    /\ Len(HitsOf(fed)) > parser.limit

(***************************************************************************)
(* Properties of extract_season_hint.                                      *)
(***************************************************************************)
\* what one directory name says by the words of the hint rule: 0 for a name that is
\* "specials" once surrounding blanks are dropped, the number for a name that holds
\* season, series or s followed by digits, None for every other name
ExpectedSegmentHint ==
    (Seg_Specials :> 0) @@ (Seg_SPECIALS_padded :> 0) @@ (Seg_Specials2 :> 2) @@
    (Seg_MySpecials :> None) @@ (Seg_Season03 :> 3) @@ (Seg_series4 :> 4) @@
    (Seg_S1 :> 1) @@ (Seg_Extras :> None)

\* the positions of hintParts whose segment gives a hint
HintingSegments == {i \in 1..Len(hintParts) : ExpectedSegmentHint[hintParts[i]] # None}

\* C23: extract_season_hint returns what the deepest hinting segment of the path says
\* (0 for a whole-segment "specials", the number after season, series or s otherwise),
\* whatever shallower segments say, and no hint when no segment gives one.
C23_DeepestSegmentWins ==
    hintPc = "done" =>
        IF HintingSegments = {} THEN hintOut = None
        ELSE hintOut = ExpectedSegmentHint[hintParts[SetMax(HintingSegments)]]

C23_Witness ==
    /\ hintPc = "done"
    /\ Cardinality(HintingSegments) >= 2
    /\ hintParts[Len(hintParts)] = Seg_Extras
    /\ hintOut = 0
    /\ \E i \in HintingSegments : ExpectedSegmentHint[hintParts[i]] # 0

(***************************************************************************)
(* Properties of remap_path.                                               *)
(***************************************************************************)
\* the components of an absolute path
ComponentsOf(path) == CHOOSE c \in ComponentLists(MaxDepth) \cup {<<>>} : JoinPath(c) = path

\* the keys that are the path or one of its ancestors: their components start the path's
MatchingKeys ==
    {k \in DOMAIN remapMapping : IsPrefix(ComponentsOf(k), ComponentsOf(remapPath))}

\* C21: remap_path replaces the longest key that is the path itself or an ancestor
\* directory of it (a prefix ending at a component boundary) by the key's value and
\* keeps the rest of the path; a key that is only a character prefix does not count,
\* and without such a key the path comes back unchanged.
C21_LongestComponentPrefix ==
    remapPc = "done" =>
        IF MatchingKeys = {} THEN remapOut = remapPath
        ELSE LET k == CHOOSE k \in MatchingKeys : \A o \in MatchingKeys : Len(o) <= Len(k)
                 rest == SubSeq(ComponentsOf(remapPath), Len(ComponentsOf(k)) + 1,
                                Len(ComponentsOf(remapPath)))
             IN  remapOut = remapMapping[k] \o JoinPath(rest)

\* two keys match, the longer one is used, and a third key is a mere character prefix
C21_Witness ==
    /\ remapPc = "done"
    /\ remapPath = JoinPath(<<Comp_a, Comp_bc, Comp_a>>)
    /\ DOMAIN remapMapping = {JoinPath(<<Comp_a>>), JoinPath(<<Comp_a, Comp_b>>)}
    /\ remapMapping[JoinPath(<<Comp_a>>)] = JoinPath(<<Comp_d>>)
    /\ remapOut = JoinPath(<<Comp_d, Comp_bc, Comp_a>>)

\* two keys are ancestors of the path and the deeper one is used
C21_WitnessLongest ==
    /\ remapPc = "done"
    /\ Cardinality(MatchingKeys) = 2
    /\ remapOut # remapPath

(***************************************************************************)
(* Properties of an empty search query.                                    *)
(***************************************************************************)
\* C22: with an empty derived query resolve returns None without a search request, a
\* detail request or a call of the chooser, and fetch_csfd_results returns the empty
\* list without a request.
C22_EmptyQueryCannotSearch ==
    /\ (lookup.status # "none" /\ lookup.display_name \in NoQueryNames) =>
           /\ lookup.status = "returned"
           /\ lookup.result = NoCandidate
           /\ ~lookup.searched
           /\ lookup.detailCalls = <<>>
           /\ lookup.downloads = <<>>
           /\ lookup.chooserCalls = 0
    /\ (fetchOut.fn = "results" /\ fetchOut.target = <<>>) =>
           /\ fetchOut.status = "returned"
           /\ fetchOut.results = <<>>
           /\ fetchOut.requests = 0
           /\ fetchLog = <<>>

\* resolve was called for a name that is only a year in parentheses
C22_Witness ==
    /\ lookup.status = "returned"
    /\ lookup.display_name = <<"(", "2", "0", "0", "5", ")">>
    /\ lookup.query = <<>>

\* fetch_csfd_results was called with "" while the site would have answered with hits
C22_WitnessFetch ==
    /\ fetchOut.fn = "results"
    /\ fetchOut.target = <<>>
    /\ fetchOut.net = Net_ok
    /\ fetchOut.status = "returned"

(***************************************************************************)
(* Properties of the cache of fetch_csfd_show_detail.                      *)
(***************************************************************************)
\* the last call was for a url an earlier call had returned a result for
AskedAgain == fetchOut.fn = "detail" /\ fetchOut.servedBefore

\* C24 as stated: the cache is unbounded, so a detail page that was obtained once is
\* never downloaded again, however many other urls are requested in between.
C24_NeverDownloadedAgain ==
    AskedAgain => fetchOut.requests = 0

\* C24, amended: the cache keeps the results of the LRU_MAXSIZE most recently used
\* urls.  A url a result was returned for is not downloaded again while fewer than
\* LRU_MAXSIZE other urls had a result returned since its own last one, and is
\* downloaded again once LRU_MAXSIZE or more other urls had.
C24_DownloadedAgainOnlyAfterEviction ==
    AskedAgain => (fetchOut.requests = 1 <=> fetchOut.othersSince >= LRU_MAXSIZE)

\* the page is still cached with as many other urls used since as the cache allows
C24_Witness ==
    /\ AskedAgain
    /\ fetchOut.othersSince = LRU_MAXSIZE - 1
    /\ fetchOut.requests = 0

\* the page is downloaded a second time
C24_WitnessEvicted ==
    /\ AskedAgain
    /\ fetchOut.othersSince = LRU_MAXSIZE
    /\ fetchOut.requests = 1

(***************************************************************************)
(* Properties of the years MovieSearchParser stores.                       *)
(***************************************************************************)
\* the years stored on the hits
StoredYears == {parser.results[i].year : i \in 1..Len(parser.results)} \ {None}

\* the token of four digits the info span held, as a number
TokenFed == ToInt(fed[Len(fed)].data, 2, 4)

\* C26 as stated: every stored year lies in 1888..2049.
C26_YearsFrom1888 ==
    StoredYears \subseteq 1888..2049

\* C26, amended: every stored year lies in 1880..2049, and a token of four digits is
\* stored as the year of the hit exactly if it lies in that range.
C26_YearsFrom1880 ==
    /\ StoredYears \subseteq 1880..2049
    /\ Len(fed) > Len(YearEvents) =>
           IF TokenFed \in 1880..2049 THEN StoredYears = {TokenFed} ELSE StoredYears = {}

\* the last year above the range was fed and not stored
C26_Witness ==
    /\ Len(fed) > Len(YearEvents)
    /\ TokenFed = 2050
    /\ Len(parser.results) = 1
    /\ StoredYears = {}

(***************************************************************************)
(* Properties of the hit a year is stored on.                              *)
(***************************************************************************)
\* the title anchors (counted from 1 in page order) that own a year: some text with a
\* year-like token stands in an info span that starts after the anchor and before the
\* next title anchor
RECURSIVE YearOwners(_, _, _, _)
YearOwners(events, i, anchor, inSpan) ==
    IF i > Len(events)
    THEN {}
    ELSE LET e == events[i]
         IN  IF e.type = "start" /\ e.tag = "a"
             THEN YearOwners(events, i + 1, anchor + 1, FALSE)
             ELSE IF e.type = "start" /\ e.tag = "span"
             THEN YearOwners(events, i + 1, anchor, TRUE)
             ELSE IF e.type = "end" /\ e.tag = "span"
             THEN YearOwners(events, i + 1, anchor, FALSE)
             ELSE IF e.type = "data" /\ inSpan /\ YEAR_PATTERN_search(e.data) # None
             THEN {anchor} \cup YearOwners(events, i + 1, anchor, inSpan)
             ELSE YearOwners(events, i + 1, anchor, inSpan)

\* the title anchor a stored hit was made from; the hrefs of the anchors of a page
\* differ as long as the page has no more than Len(HrefOf) of them
AnchorOf(hit) == CHOOSE n \in 1..Len(HrefOf) : urljoin(HrefOf[n]) = hit.url

\* C25: a stored hit has a year only if an info span that belongs to it (after its
\* title anchor, before the next title anchor) held a year-like token; the info span
\* after a dropped anchor sets the year of no earlier hit.
C25_YearFromOwnSpan ==
    \A k \in 1..Len(parser.results) :
        parser.results[k].year # None =>
            AnchorOf(parser.results[k]) \in YearOwners(fed, 1, 0, FALSE)

(***************************************************************************)
(* Properties of CSFDShowDetailParser.                                     *)
(***************************************************************************)
\* an element flagged origin was opened and a </div> came after it
FirstOriginClosed ==
    \E i, j \in 1..Len(detailFed) :
        /\ i < j
        /\ detailFed[i].type = "start" /\ detailFed[i].tag = "div"
        /\ "origin" \in detailFed[i].class_set
        /\ detailFed[j].type = "end" /\ detailFed[j].tag = "div"

\* C27: once the first element flagged origin has been closed, no later event (another
\* element flagged origin included) changes the parsed origins.
C27_OriginsFromFirstElement ==
    [][FirstOriginClosed => detailParser'.origins = detailParser.origins]_vars

(***************************************************************************)
(* Properties of failed detail fetches over the lookups of a run.          *)
(***************************************************************************)
\* the urls whose detail page was requested from the network during lookup i and whose
\* request failed with a URLError
FailedUrls(i) ==
    {lookups[i].page[k].url :
        k \in {n \in 1..Len(lookups[i].page) :
                  /\ lookups[i].page[n].url \in SeqToSet(lookups[i].downloads)
                  /\ lookups[i].nets[n].kind = "urlerror"}}

\* C30: a detail page whose fetch failed at the transport layer during a lookup is not
\* requested from the network again by a later lookup of the run, and the hit with
\* that url is no candidate of the later lookup.
C30_FailedFetchMemoized ==
    \A i, j \in 1..Len(lookups) :
        i < j =>
            \A u \in FailedUrls(i) :
                /\ u \notin SeqToSet(lookups[j].downloads)
                /\ \A k \in 1..Len(lookups[j].candidates) : lookups[j].candidates[k].url # u

\* a later lookup asks for the failed page again, while the site would serve it, and
\* still finds a candidate in another hit
C30_Witness ==
    \E i, j \in 1..Len(lookups) :
        /\ i < j
        /\ \E u \in FailedUrls(i) : u \in SeqToSet(lookups[j].detailCalls)
        /\ lookups[j].status = "returned"
        /\ Len(lookups[j].candidates) = 1

(***************************************************************************)
(* Properties of the selection flows: abort and skip.                      *)
(***************************************************************************)
\* the user left the CSFD selection of show i with the key the screen calls abort
AbortedAt(i) == answers[i].curses /\ answers[i].key = "q"

\* C28: abort is a cancellation signal distinct from skip in every selection flow.  In the
\* finder: once the user aborts the CSFD selection of a show, no later show is processed.
C28_AbortStopsRemainingShows ==
    \A i \in 1..Len(answers) : AbortedAt(i) => Len(lookups) = i /\ mainPc # "loop"

(***************************************************************************)
(* Properties of process_library_path.                                     *)
(***************************************************************************)
\* C29: in process_library_path, after any sequence of directory renames, the path
\* handed to process_media_file for each later file is the file's current location on
\* disk, and a file that exists is never skipped as missing.
C29_HandedPathIsCurrentLocation ==
    \A k \in 1..Len(libLog) :
        libLog[k].mapped_path = libLog[k].location /\ ~libLog[k].call.missing

====
